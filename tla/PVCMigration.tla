---------------------------- MODULE PVCMigration ----------------------------
(***************************************************************************)
(* The migration of a local persistent volume of one application to        *)
(* another node: the create handler, the background goroutine that stops   *)
(* the workload, copies the data and switches the Deployment and the       *)
(* templates over, its undo path, the explicit cleanup of the source       *)
(* volume, and the handlers that act on the same claims meanwhile          *)
(* (deleting a claim, deploying a release).                                *)
(*                                                                         *)
(* Migration m provisions a claim of its own, named after its id; the      *)
(* model names that claim m.                                               *)
(***************************************************************************)
EXTENDS Integers

CONSTANTS
    Migration,      \* ids of persistent_volume_migrations rows
    Origin,         \* the claim the application starts with
    Node,           \* cluster nodes
    Home,           \* the node Origin is bound to
    Template,       \* deployment templates of the application
    Deletable,      \* claims users try to delete
    Faults,         \* how a Kubernetes or SSH call may fail: "refused", "lost"
    MaxFaults,      \* failed calls
    MaxDBFaults,    \* failed database writes
    MaxDeadlines,   \* executions that outlive their 35 minutes
    MaxCrashes,     \* restarts of the platform process
    MaxReleases,    \* releases deployed from a template
    MaxWrites       \* writes of the application to its volume

Claim == {Origin} \union Migration

ASSUME ConstantsAssumption ==
    /\ Origin \notin Migration
    /\ Home \in Node
    /\ Deletable \subseteq Claim
    /\ Faults \subseteq {"refused", "lost"}
    /\ {MaxFaults, MaxDBFaults, MaxDeadlines, MaxCrashes, MaxReleases, MaxWrites} \subseteq Nat

VARIABLES
    row,        \* the migration records
    exec,       \* the handler, then the goroutine, working on each migration
    cleaner,    \* the cleanup request of each migration
    deleter,    \* the delete request of each claim
    dep,        \* the application's Deployment
    tpl,        \* claim and node of each template
    pvc,        \* the claims in the cluster
    holder,     \* migrations whose binding pod exists
    pods,       \* claims mounted by running pods of the Deployment
    vol,        \* the writes each volume holds
    writes,     \* number of writes of the application
    used        \* how much of each bound is used up

vars == <<row, exec, cleaner, deleter, dep, tpl, pvc, holder, pods, vol, writes, used>>
cluster == <<dep, pvc, holder, pods, vol, writes>>
requests == <<cleaner, deleter>>

Status == {"absent", "pending", "preflight", "provisioning_target", "stopping_source", "copying",
           "cutover", "waiting_ready", "cleanup_pending", "cleaned", "failed"}
Terminal == {"failed", "cleaned"}
Placement == [claim: Claim, node: Node]

NodeOf(c) == IF c = Origin THEN Home ELSE row[c].node
Active(c) == {m \in Migration : row[m].src = c /\ row[m].status \notin Terminal \union {"absent"}}

Init ==
    /\ row = [m \in Migration |-> [status |-> "absent", src |-> Origin, srcNode |-> Home, node |-> Home,
                                   replicas |-> 0, snapshot |-> [t \in Template |-> [claim |-> Origin, node |-> Home]]]]
    /\ exec = [m \in Migration |-> [pc |-> "idle", ctx |-> "live", undo |-> "none", data |-> {}]]
    /\ cleaner = [m \in Migration |-> "idle"]
    /\ deleter = [c \in Claim |-> "idle"]
    /\ \E n \in {0, 1} : dep = [claim |-> Origin, node |-> Home, replicas |-> n]
    /\ tpl = [t \in Template |-> [claim |-> Origin, node |-> Home]]
    /\ pvc = [c \in Claim |-> IF c = Origin THEN "bound" ELSE "absent"]
    /\ holder = {}
    /\ pods = {}
    /\ vol = [c \in Claim |-> {}]
    /\ writes = 0
    /\ used = [faults |-> 0, db |-> 0, deadlines |-> 0, crashes |-> 0, releases |-> 0]

-----------------------------------------------------------------------------
(* Outcomes of calls. A Kubernetes or SSH call succeeds, is refused, or     *)
(* takes effect while its reply is lost; once the context of the goroutine *)
(* has expired every call is refused.                                      *)

At(m, pc) == exec[m].pc = pc
Goto(m, pc) == exec' = [exec EXCEPT ![m].pc = pc]
DBWrite == {"ok"} \union (IF used.db < MaxDBFaults THEN {"error"} ELSE {})
DBCost(r) == used' = IF r = "error" THEN [used EXCEPT !.db = @ + 1] ELSE used

Reply(m) ==
    IF exec[m].ctx = "expired" THEN {"refused"}
    ELSE {"ok"} \union (IF used.faults < MaxFaults THEN Faults ELSE {})
Applied(r) == r \in {"ok", "lost"}
Cost(m, r) ==
    used' = IF r # "ok" /\ exec[m].ctx = "live" THEN [used EXCEPT !.faults = @ + 1] ELSE used

\* Where a failing step continues: the target is dropped, the source restored,
\* or the failure just recorded.
DropsTarget == {"binding_pod", "wait_bound", "check_path", "scale_down", "wait_stopped", "copy_begin", "copy_end"}
\* Mutant: a workload that does not stop in time is not scaled up again.
RestoresSourceAfterCopy == {"copy_begin", "copy_end", "delete_holder", "replace_claim",
                            "replace_templates", "scale_up", "wait_ready"}
RestoresSource == {"wait_stopped", "copy_begin", "copy_end", "delete_holder", "replace_claim",
                   "replace_templates", "scale_up", "wait_ready"}

Undo(pc) == IF pc \in RestoresSource THEN "restore" ELSE "record"
Failing(m) ==
    exec' = [exec EXCEPT ![m].pc = IF @ \in DropsTarget THEN "drop_holder"
                                   ELSE IF @ \in RestoresSource THEN "restore_claim" ELSE "save_failed",
                         ![m].undo = Undo(exec[m].pc)]
Continue(m, r, pc) == IF r = "ok" THEN Goto(m, pc) ELSE Failing(m)

\* UpdateMigration: a failed save ends the goroutine there and then.
SaveStatus(m, status, pc) ==
    \E r \in DBWrite :
        /\ DBCost(r)
        /\ row' = IF r = "ok" THEN [row EXCEPT ![m].status = status] ELSE row
        /\ Goto(m, IF r = "ok" THEN pc ELSE "done")
        /\ UNCHANGED <<cluster, requests, tpl>>

-----------------------------------------------------------------------------
(* Create handler: look for an active migration, read claim, workload and  *)
(* templates, insert the record, name the target and start the goroutine.  *)

FindActiveMigration(m, c) ==
    /\ At(m, "idle") /\ row[m].status = "absent"
    /\ Active(c) = {}
    /\ exec' = [exec EXCEPT ![m].pc = "read_source"]
    /\ row' = [row EXCEPT ![m].src = c]
    /\ UNCHANGED <<cluster, requests, tpl, used>>

ReadSource(m, n) ==
    /\ At(m, "read_source")
    /\ LET c == row[m].src IN
       /\ pvc[c] = "bound" /\ NodeOf(c) # n /\ dep.claim = c
       /\ row' = [row EXCEPT ![m] = [@ EXCEPT !.srcNode = NodeOf(c), !.node = n,
                                              !.replicas = dep.replicas, !.snapshot = tpl]]
    /\ Goto(m, "insert")
    /\ UNCHANGED <<cluster, requests, tpl, used>>

RejectMigration(m) ==
    /\ At(m, "read_source")
    /\ LET c == row[m].src IN pvc[c] # "bound" \/ dep.claim # c
    /\ Goto(m, "idle")
    /\ UNCHANGED <<row, cluster, requests, tpl, used>>

InsertMigration(m) == At(m, "insert") /\ SaveStatus(m, "pending", "name_target")
StartMigration(m) == At(m, "name_target") /\ SaveStatus(m, "pending", "start")

-----------------------------------------------------------------------------
(* The goroutine.                                                          *)

SavePreflight(m) == At(m, "start") /\ SaveStatus(m, "preflight", "preflight")

\* The environment row cannot be read.
EnvironmentMissing(m) ==
    /\ At(m, "start") /\ used.db < MaxDBFaults
    /\ DBCost("error")
    /\ Failing(m)
    /\ UNCHANGED <<row, cluster, requests, tpl>>

Preflight(m) ==
    /\ At(m, "preflight")
    /\ \E r \in Reply(m) :
        /\ Cost(m, r)
        /\ Continue(m, IF pvc[row[m].src] = "absent" THEN "refused" ELSE r, "save_provisioning")
    /\ UNCHANGED <<row, cluster, requests, tpl>>

SaveProvisioning(m) == At(m, "save_provisioning") /\ SaveStatus(m, "provisioning_target", "create_claim")

CreateTarget(m) ==
    /\ At(m, "create_claim")
    /\ \E r \in Reply(m) :
        /\ Cost(m, r)
        /\ pvc' = IF Applied(r) THEN [pvc EXCEPT ![m] = "pending"] ELSE pvc
        /\ Continue(m, r, "binding_pod")
    /\ UNCHANGED <<row, requests, dep, tpl, holder, pods, vol, writes>>

CreateBindingPod(m) ==
    /\ At(m, "binding_pod")
    /\ \E r \in Reply(m) :
        /\ Cost(m, r)
        /\ holder' = IF Applied(r) THEN holder \union {m} ELSE holder
        /\ Continue(m, r, "wait_bound")
    /\ UNCHANGED <<row, requests, dep, tpl, pvc, pods, vol, writes>>

\* Three minutes to bind; the claim is polled.
WaitBound(m) ==
    /\ At(m, "wait_bound")
    /\ \E r \in Reply(m) :
        /\ Cost(m, r)
        /\ Continue(m, IF pvc[m] \in {"bound", "deleting"} THEN r ELSE "refused", "check_path")
    /\ UNCHANGED <<row, cluster, requests, tpl>>

CheckTargetPath(m) ==
    /\ At(m, "check_path")
    /\ \E r \in Reply(m) : Cost(m, r) /\ Continue(m, r, "save_stopping")
    /\ UNCHANGED <<row, cluster, requests, tpl>>

SaveStopping(m) == At(m, "save_stopping") /\ SaveStatus(m, "stopping_source", "scale_down")

ScaleDown(m) ==
    /\ At(m, "scale_down")
    /\ \E r \in Reply(m) :
        /\ Cost(m, r)
        /\ dep' = IF Applied(r) THEN [dep EXCEPT !.replicas = 0] ELSE dep
        /\ Continue(m, r, "wait_stopped")
    /\ UNCHANGED <<row, requests, tpl, pvc, holder, pods, vol, writes>>

\* Mutant: the copy starts as soon as the Deployment is scaled down.
DontWaitStopped(m) ==
    /\ At(m, "wait_stopped")
    /\ Goto(m, "save_copying")
    /\ UNCHANGED <<row, cluster, requests, tpl, used>>
\* Ninety seconds for the pods to go away.
WaitStopped(m) ==
    /\ At(m, "wait_stopped")
    /\ \E r \in Reply(m) :
        /\ Cost(m, r)
        /\ Continue(m, IF pods = {} THEN r ELSE "refused", "save_copying")
    /\ UNCHANGED <<row, cluster, requests, tpl>>

SaveCopying(m) == At(m, "save_copying") /\ SaveStatus(m, "copying", "copy_begin")

\* tar streams the source directory into the target directory.
CopyBegin(m) ==
    /\ At(m, "copy_begin")
    /\ \E r \in Reply(m) \ {"lost"} :
        /\ Cost(m, r)
        /\ IF r = "ok" /\ pvc[row[m].src] # "absent" /\ pvc[m] # "absent"
           THEN exec' = [exec EXCEPT ![m].pc = "copy_end", ![m].data = vol[row[m].src]]
           ELSE Failing(m)
    /\ UNCHANGED <<row, cluster, requests, tpl>>

CopyEnd(m) ==
    /\ At(m, "copy_end")
    /\ \E r \in Reply(m) :
        /\ Cost(m, r)
        /\ \E part \in (IF r = "ok" THEN {exec[m].data} ELSE SUBSET exec[m].data) :
              vol' = [vol EXCEPT ![m] = @ \union part]
        /\ Continue(m, r, "save_cutover")
    /\ UNCHANGED <<row, requests, dep, tpl, pvc, holder, pods, writes>>

SaveCutover(m) == At(m, "save_cutover") /\ SaveStatus(m, "cutover", "delete_holder")

DeleteBindingPod(m) ==
    /\ At(m, "delete_holder")
    /\ \E r \in Reply(m) :
        /\ Cost(m, r)
        /\ holder' = IF Applied(r) THEN holder \ {m} ELSE holder
        /\ Continue(m, r, "replace_claim")
    /\ UNCHANGED <<row, requests, dep, tpl, pvc, pods, vol, writes>>

\* ReplaceDeploymentPVCNode fails when the Deployment does not use the claim.
ReplaceDeploymentPVCNode(from, to, n) ==
    IF dep.claim = from THEN [dep EXCEPT !.claim = to, !.node = n] ELSE dep

ReplaceClaim(m) ==
    /\ At(m, "replace_claim")
    /\ \E r \in Reply(m) :
        /\ Cost(m, r)
        /\ dep' = IF Applied(r) THEN ReplaceDeploymentPVCNode(row[m].src, m, row[m].node) ELSE dep
        /\ Continue(m, IF dep.claim = row[m].src THEN r ELSE "refused", "replace_templates")
    /\ UNCHANGED <<row, requests, tpl, pvc, holder, pods, vol, writes>>

\* The templates are saved one by one: an error leaves some of them changed.
\* Mutant: the claim is renamed and the node selection forgotten.
MovedClaimOnly(m, ts) ==
    [t \in Template |-> IF t \in ts /\ tpl[t].claim = row[m].src THEN [tpl[t] EXCEPT !.claim = m] ELSE tpl[t]]
Moved(m, ts) ==
    [t \in Template |-> IF t \in ts /\ tpl[t].claim = row[m].src
                        THEN [claim |-> m, node |-> row[m].node] ELSE tpl[t]]

ReplaceTemplates(m) ==
    /\ At(m, "replace_templates")
    /\ \E r \in DBWrite :
        /\ DBCost(r)
        /\ \E ts \in (IF r = "ok" THEN {Template} ELSE SUBSET Template) : tpl' = Moved(m, ts)
        /\ Continue(m, r, "scale_up")
    /\ UNCHANGED <<row, requests, cluster>>

ScaleUp(m) ==
    /\ At(m, "scale_up")
    /\ \E r \in Reply(m) :
        /\ Cost(m, r)
        /\ dep' = IF Applied(r) THEN [dep EXCEPT !.replicas = row[m].replicas] ELSE dep
        /\ Continue(m, r, "save_waiting")
    /\ UNCHANGED <<row, requests, tpl, pvc, holder, pods, vol, writes>>

SaveWaiting(m) == At(m, "save_waiting") /\ SaveStatus(m, "waiting_ready", "wait_ready")

\* Two minutes for an available replica; a running pod need not be available.
WaitReady(m) ==
    /\ At(m, "wait_ready")
    /\ \/ exec[m].ctx = "live" /\ pods # {} /\ Goto(m, "save_cleanup")
       \/ Failing(m)
    /\ UNCHANGED <<row, cluster, requests, tpl, used>>

SaveCleanupPending(m) == At(m, "save_cleanup") /\ SaveStatus(m, "cleanup_pending", "done")

-----------------------------------------------------------------------------
(* Failure: cleanupMigrationTarget, then failMigration. Errors of these    *)
(* calls are ignored.                                                      *)

DropBindingPod(m) ==
    /\ At(m, "drop_holder")
    /\ \E r \in Reply(m) :
        /\ Cost(m, r)
        /\ holder' = IF Applied(r) THEN holder \ {m} ELSE holder
    /\ Goto(m, "drop_claim")
    /\ UNCHANGED <<row, requests, dep, tpl, pvc, pods, vol, writes>>

\* A claim that is not bound is gone at once, a bound one when no pod uses it.
Delete(c) ==
    [pvc EXCEPT ![c] = CASE @ = "pending" -> "absent" [] @ = "bound" -> "deleting" [] OTHER -> @]

DropTarget(m) ==
    /\ At(m, "drop_claim")
    /\ \E r \in Reply(m) : Cost(m, r) /\ pvc' = IF Applied(r) THEN Delete(m) ELSE pvc
    /\ Goto(m, IF exec[m].undo = "restore" THEN "restore_claim" ELSE "save_failed")
    /\ UNCHANGED <<row, requests, dep, tpl, holder, pods, vol, writes>>

\* A restoring call that does not take effect leaves the undo broken.
Restoring(m, r, pc) ==
    exec' = [exec EXCEPT ![m].pc = pc, ![m].undo = IF Applied(r) THEN @ ELSE "broken"]

\* The Deployment is switched back when it uses the target claim.
RestoreClaim(m) ==
    /\ At(m, "restore_claim")
    /\ \E r \in Reply(m) :
        /\ Cost(m, r)
        /\ dep' = IF Applied(r) THEN ReplaceDeploymentPVCNode(m, row[m].src, row[m].srcNode) ELSE dep
        /\ Restoring(m, r, "restore_replicas")
    /\ UNCHANGED <<row, requests, tpl, pvc, holder, pods, vol, writes>>

\* failMigration cannot read the environment: nothing is restored.
SkipRestore(m) ==
    /\ At(m, "restore_claim") /\ used.db < MaxDBFaults
    /\ DBCost("error")
    /\ Restoring(m, "refused", "save_failed")
    /\ UNCHANGED <<row, requests, cluster, tpl>>

RestoreReplicas(m) ==
    /\ At(m, "restore_replicas")
    /\ \E r \in Reply(m) :
        /\ Cost(m, r)
        /\ dep' = IF Applied(r) THEN [dep EXCEPT !.replicas = row[m].replicas] ELSE dep
        /\ Restoring(m, r, "restore_templates")
    /\ UNCHANGED <<row, requests, tpl, pvc, holder, pods, vol, writes>>

RestoreTemplates(m) ==
    /\ At(m, "restore_templates")
    /\ \E r \in DBWrite :
        /\ DBCost(r)
        /\ \E ts \in (IF r = "ok" THEN {Template} ELSE SUBSET Template) :
              tpl' = [t \in Template |-> IF t \in ts THEN row[m].snapshot[t] ELSE tpl[t]]
        /\ Restoring(m, IF r = "ok" THEN "ok" ELSE "refused", "save_failed")
    /\ UNCHANGED <<row, requests, cluster>>

SaveFailed(m) == At(m, "save_failed") /\ SaveStatus(m, "failed", "done")

Goroutine(m) ==
    \/ SavePreflight(m) \/ EnvironmentMissing(m) \/ Preflight(m) \/ SaveProvisioning(m) \/ CreateTarget(m)
    \/ CreateBindingPod(m) \/ WaitBound(m) \/ CheckTargetPath(m) \/ SaveStopping(m) \/ ScaleDown(m)
    \/ WaitStopped(m) \/ SaveCopying(m) \/ CopyBegin(m) \/ CopyEnd(m) \/ SaveCutover(m)
    \/ DeleteBindingPod(m) \/ ReplaceClaim(m) \/ ReplaceTemplates(m) \/ ScaleUp(m) \/ SaveWaiting(m)
    \/ WaitReady(m) \/ SaveCleanupPending(m) \/ DropBindingPod(m) \/ DropTarget(m) \/ RestoreClaim(m)
    \/ SkipRestore(m) \/ RestoreReplicas(m) \/ RestoreTemplates(m) \/ SaveFailed(m)

CreateHandler(m) ==
    \/ \E c \in Claim : FindActiveMigration(m, c)
    \/ \E n \in Node : ReadSource(m, n)
    \/ RejectMigration(m) \/ InsertMigration(m) \/ StartMigration(m)

Handler == {"idle", "read_source", "insert", "name_target"}

\* The 35 minutes of the execution are over.
Deadline(m) ==
    /\ exec[m].pc \notin Handler \union {"done"} /\ exec[m].ctx = "live"
    /\ used.deadlines < MaxDeadlines
    /\ used' = [used EXCEPT !.deadlines = @ + 1]
    /\ exec' = [exec EXCEPT ![m].ctx = "expired"]
    /\ UNCHANGED <<row, requests, cluster, tpl>>

\* The platform restarts: requests and goroutines are gone, nothing resumes.
Crash ==
    /\ used.crashes < MaxCrashes
    /\ used' = [used EXCEPT !.crashes = @ + 1]
    /\ exec' = [m \in Migration |->
                  [exec[m] EXCEPT !.pc = IF row[m].status = "absent" THEN "idle" ELSE "done"]]
    /\ cleaner' = [m \in Migration |-> "idle"]
    /\ deleter' = [c \in Claim |-> "idle"]
    /\ UNCHANGED <<row, cluster, tpl>>

-----------------------------------------------------------------------------
(* Cleanup of the source claim, and deletion of a claim by a user.         *)

Call == {"ok"} \union (IF used.faults < MaxFaults THEN Faults ELSE {})
CallCost(r) == used' = IF r = "ok" THEN used ELSE [used EXCEPT !.faults = @ + 1]

\* Mutant: the source is deleted whatever uses it.
CleanupUnchecked(m) ==
    /\ cleaner[m] = "idle" /\ row[m].status # "absent"
    /\ cleaner' = [cleaner EXCEPT ![m] = "delete"]
    /\ UNCHANGED <<row, exec, deleter, cluster, tpl, used>>
CleanupCheck(m) ==
    /\ cleaner[m] = "idle" /\ row[m].status = "cleanup_pending"
    /\ dep.claim # row[m].src
    /\ cleaner' = [cleaner EXCEPT ![m] = "delete"]
    /\ UNCHANGED <<row, exec, deleter, cluster, tpl, used>>

CleanupDelete(m) ==
    /\ cleaner[m] = "delete"
    /\ \E r \in Call :
        /\ CallCost(r)
        /\ pvc' = IF Applied(r) THEN Delete(row[m].src) ELSE pvc
        /\ cleaner' = [cleaner EXCEPT ![m] = IF r = "ok" /\ pvc[row[m].src] # "absent" THEN "save" ELSE "idle"]
    /\ UNCHANGED <<row, exec, deleter, dep, tpl, holder, pods, vol, writes>>

CleanupSave(m) ==
    /\ cleaner[m] = "save"
    /\ \E r \in DBWrite :
        /\ DBCost(r)
        /\ row' = IF r = "ok" THEN [row EXCEPT ![m].status = "cleaned"] ELSE row
    /\ cleaner' = [cleaner EXCEPT ![m] = "idle"]
    /\ UNCHANGED <<exec, deleter, cluster, tpl>>

Cleanup(m) == CleanupCheck(m) \/ CleanupDelete(m) \/ CleanupSave(m)

\* pvcReferences drops the references it could not list.
References(c, listed) ==
    {t \in Template : "templates" \in listed /\ tpl[t].claim = c}
    \union (IF "workloads" \in listed /\ dep.claim = c THEN {"workload"} ELSE {})

DeleteCheck(c) ==
    /\ deleter[c] = "idle" /\ c \in Deletable
    /\ pvc[c] # "absent"
    /\ Active(c) = {}
    /\ \E r \in Call, d \in DBWrite :
        /\ used' = [used EXCEPT !.faults = IF r = "ok" THEN @ ELSE @ + 1, !.db = IF d = "ok" THEN @ ELSE @ + 1]
        /\ References(c, (IF r = "ok" THEN {"workloads"} ELSE {})
                         \union (IF d = "ok" THEN {"templates"} ELSE {})) = {}
    /\ deleter' = [deleter EXCEPT ![c] = "delete"]
    /\ UNCHANGED <<row, exec, cleaner, cluster, tpl>>

DeleteClaim(c) ==
    /\ deleter[c] = "delete"
    /\ \E r \in Call : CallCost(r) /\ pvc' = IF Applied(r) THEN Delete(c) ELSE pvc
    /\ deleter' = [deleter EXCEPT ![c] = "idle"]
    /\ UNCHANGED <<row, exec, cleaner, dep, tpl, holder, pods, vol, writes>>

\* A release deploys template t; its preflight wants the claim bound to the
\* template's node.
DeployRelease(t) ==
    /\ used.releases < MaxReleases
    /\ pvc[tpl[t].claim] \in {"bound", "deleting"} /\ NodeOf(tpl[t].claim) = tpl[t].node
    /\ used' = [used EXCEPT !.releases = @ + 1]
    /\ dep' = [claim |-> tpl[t].claim, node |-> tpl[t].node, replicas |-> 1]
    /\ UNCHANGED <<row, exec, requests, tpl, pvc, holder, pods, vol, writes>>

-----------------------------------------------------------------------------
(* The cluster and the application.                                        *)

BindClaim(m) ==
    /\ m \in holder /\ pvc[m] = "pending"
    /\ pvc' = [pvc EXCEPT ![m] = "bound"]
    /\ UNCHANGED <<row, exec, requests, dep, tpl, holder, pods, vol, writes, used>>

\* A claim being deleted goes away once no pod uses it.
ReclaimClaim(c) ==
    /\ pvc[c] = "deleting" /\ c \notin pods \union holder
    /\ pvc' = [pvc EXCEPT ![c] = "absent"]
    /\ UNCHANGED <<row, exec, requests, dep, tpl, holder, pods, vol, writes, used>>

StartPod ==
    /\ dep.replicas > 0 /\ dep.claim \notin pods
    /\ pvc[dep.claim] = "bound" /\ NodeOf(dep.claim) = dep.node
    /\ pods' = pods \union {dep.claim}
    /\ UNCHANGED <<row, exec, requests, dep, tpl, pvc, holder, vol, writes, used>>

StopPod(c) ==
    /\ c \in pods
    /\ pods' = pods \ {c}
    /\ UNCHANGED <<row, exec, requests, dep, tpl, pvc, holder, vol, writes, used>>

Write(c) ==
    /\ c \in pods /\ writes < MaxWrites
    /\ writes' = writes + 1
    /\ vol' = [vol EXCEPT ![c] = @ \union {writes + 1}]
    /\ UNCHANGED <<row, exec, requests, dep, tpl, pvc, holder, pods, used>>

Next ==
    \/ \E m \in Migration : CreateHandler(m) \/ Goroutine(m) \/ Deadline(m) \/ Cleanup(m) \/ BindClaim(m)
    \/ \E c \in Claim : DeleteCheck(c) \/ DeleteClaim(c) \/ ReclaimClaim(c) \/ StopPod(c) \/ Write(c)
    \/ \E t \in Template : DeployRelease(t)
    \/ StartPod
    \/ Crash

Spec == Init /\ [][Next]_vars
\* Every step of the goroutine ends: its calls and waits carry timeouts.
FairSpec == Spec /\ \A m \in Migration : WF_vars(Goroutine(m))

-----------------------------------------------------------------------------
ExecPc == Handler \union DropsTarget \union RestoresSource \union
    {"start", "preflight", "save_provisioning", "create_claim", "save_stopping", "save_copying", "save_cutover",
     "save_waiting", "save_cleanup", "drop_holder", "drop_claim", "restore_claim", "restore_replicas",
     "restore_templates", "save_failed", "done"}
Written == 1..MaxWrites

\* The state of migrations, requests and cluster is well formed.
TypeOK ==
    /\ row \in [Migration -> [status: Status, src: Claim, srcNode: Node, node: Node, replicas: {0, 1},
                              snapshot: [Template -> Placement]]]
    /\ exec \in [Migration -> [pc: ExecPc, ctx: {"live", "expired"},
                               undo: {"none", "record", "restore", "broken"}, data: SUBSET Written]]
    /\ cleaner \in [Migration -> {"idle", "delete", "save"}]
    /\ deleter \in [Claim -> {"idle", "delete"}]
    /\ dep \in [claim: Claim, node: Node, replicas: {0, 1}]
    /\ tpl \in [Template -> Placement]
    /\ pvc \in [Claim -> {"absent", "pending", "bound", "deleting"}]
    /\ holder \subseteq Migration /\ pods \subseteq Claim
    /\ vol \in [Claim -> SUBSET Written] /\ writes \in 0..MaxWrites
    /\ used \in [faults: 0..MaxFaults, db: 0..MaxDBFaults, deadlines: 0..MaxDeadlines,
                 crashes: 0..MaxCrashes, releases: 0..MaxReleases]

\* streamPVCData runs after every pod of the source is gone: once the Deployment
\* uses the target, or the migration has succeeded, the target volume holds every
\* write that was made to the source volume.
CopyComplete ==
    \A m \in Migration :
        dep.claim = m \/ row[m].status \in {"cleanup_pending", "cleaned"} => vol[row[m].src] \subseteq vol[m]

\* The Deployment is always scheduled on the node its volume lives on, through
\* switch-over and switch-back (ReplaceDeploymentPVCNode).
DeploymentOnVolumeNode == dep.node = NodeOf(dep.claim)

\* No handler deletes a claim that the Deployment or a template refers to.
ReferencedClaimKept ==
    \A c \in {dep.claim} \union {tpl[t].claim : t \in Template} : pvc[c] = "bound"

\* A migration that ends in "failed" leaves workload and templates as they were
\* when it was created.
RestoredOnFailure ==
    [][\A m \in Migration : row[m].status # "failed" /\ row'[m].status = "failed" =>
           /\ dep.claim = row[m].src /\ dep.replicas = row[m].replicas
           /\ tpl = row[m].snapshot]_vars

\* ... unless a call of the undo path itself failed; one that succeeds has moved
\* the Deployment, its replicas and every template that mounted the source to the
\* target claim on the target node.
MovedOrRestored ==
    [][\A m \in Migration :
           /\ row[m].status # "failed" /\ row'[m].status = "failed" /\ exec[m].undo # "broken" =>
                 /\ dep.claim = row[m].src /\ dep.replicas = row[m].replicas
                 /\ tpl = row[m].snapshot
           /\ row[m].status # "cleanup_pending" /\ row'[m].status = "cleanup_pending" =>
                 /\ dep = [claim |-> m, node |-> row[m].node, replicas |-> row[m].replicas]
                 /\ \A t \in Template :
                       row[m].snapshot[t].claim = row[m].src => tpl[t] = [claim |-> m, node |-> row[m].node]]_vars

\* The create handler admits one unfinished migration per source claim, across
\* failures and cleanups of earlier ones. Its check and its insert are not atomic:
\* this is about requests that do not race with each other.
OneActiveMigration == \A c \in Claim : \A m, n \in Active(c) : m = n

\* Requests to migrate do not race with each other, and one waits until the
\* goroutine of the one before it has ended.
OneAtATime ==
    \A m, n \in Migration : {exec[m].pc, exec[n].pc} \intersect {"idle", "done"} = {} => m = n

\* An application a migration stopped is started again, on the source or on the
\* target, unless a status cannot be saved, the process crashes or a call of the
\* undo path fails.
ApplicationComesBack ==
    \A m \in Migration :
        (At(m, "wait_stopped") /\ row[m].replicas = 1)
            ~> (dep.replicas = 1 \/ used.db > 0 \/ used.crashes > 0 \/ exec[m].undo = "broken")
=============================================================================
