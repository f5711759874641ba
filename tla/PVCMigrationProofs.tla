------------------------- MODULE PVCMigrationProofs -------------------------
(***************************************************************************)
(* Proofs about PVCMigration.  The first part holds whatever overlaps:     *)
(* migrations, releases, cleanups, deletions, failing calls and saves,     *)
(* deadlines and restarts, of any number.  Every variable keeps its type, and *)
(* the Deployment stays on the node of the volume it names.                *)
(*                                                                         *)
(* The second part is about migrations that do not overlap (OneAtATime) and *)
(* during which no release is deployed (MaxReleases = 0): PVCMigration says *)
(* what goes wrong otherwise.                                              *)
(***************************************************************************)
EXTENDS PVCMigration, TLAPS

-----------------------------------------------------------------------------
(* Types.                                                                  *)

RowShape == [status: Status, src: Claim, srcNode: Node, node: Node, replicas: {0, 1},
             snapshot: [Template -> Placement]]
ExecShape == [pc: ExecPc, ctx: {"live", "expired"}, undo: {"none", "record", "restore", "broken"}, data: SUBSET Written]
DepShape == [claim: Claim, node: Node, replicas: {0, 1}]
UsedShape == [faults: 0..MaxFaults, db: 0..MaxDBFaults, deadlines: 0..MaxDeadlines,
              crashes: 0..MaxCrashes, releases: 0..MaxReleases]

\* The counters of failed calls and saves stay within their bounds.
LEMMA Counters ==
    ASSUME used \in UsedShape
    PROVE  /\ \A m \in Migration : \A r \in Reply(m) : Cost(m, r) => used' \in UsedShape
           /\ \A r \in DBWrite : DBCost(r) => used' \in UsedShape
           /\ \A r \in Call : CallCost(r) => used' \in UsedShape
           /\ used.db < MaxDBFaults /\ DBCost("error") => used' \in UsedShape
           /\ used.deadlines < MaxDeadlines => [used EXCEPT !.deadlines = @ + 1] \in UsedShape
           /\ used.crashes < MaxCrashes => [used EXCEPT !.crashes = @ + 1] \in UsedShape
           /\ used.releases < MaxReleases => [used EXCEPT !.releases = @ + 1] \in UsedShape
<1>1. /\ MaxFaults \in Nat /\ MaxDBFaults \in Nat /\ MaxDeadlines \in Nat /\ MaxCrashes \in Nat /\ MaxReleases \in Nat
      /\ "ok" \notin Faults
  BY ConstantsAssumption
<1>2. /\ used.faults \in 0..MaxFaults /\ used.db \in 0..MaxDBFaults /\ used.deadlines \in 0..MaxDeadlines
      /\ used.crashes \in 0..MaxCrashes /\ used.releases \in 0..MaxReleases
  BY DEF UsedShape
<1>3. used.faults < MaxFaults => [used EXCEPT !.faults = @ + 1] \in UsedShape
  BY <1>1, <1>2 DEF UsedShape
<1>4. used.db < MaxDBFaults => [used EXCEPT !.db = @ + 1] \in UsedShape
  BY <1>1, <1>2 DEF UsedShape
<1>5. ASSUME NEW m \in Migration, NEW r \in Reply(m), Cost(m, r) PROVE used' \in UsedShape
  BY <1>3, <1>5 DEF Reply, Cost
<1>6. ASSUME NEW r \in DBWrite, DBCost(r) PROVE used' \in UsedShape
  BY <1>4, <1>6 DEF DBWrite, DBCost
<1>7. ASSUME NEW r \in Call, CallCost(r) PROVE used' \in UsedShape
  BY <1>3, <1>7 DEF Call, CallCost
<1>8. used.db < MaxDBFaults /\ DBCost("error") => used' \in UsedShape
  BY <1>4 DEF DBCost
<1>9. /\ used.deadlines < MaxDeadlines => [used EXCEPT !.deadlines = @ + 1] \in UsedShape
      /\ used.crashes < MaxCrashes => [used EXCEPT !.crashes = @ + 1] \in UsedShape
      /\ used.releases < MaxReleases => [used EXCEPT !.releases = @ + 1] \in UsedShape
  BY <1>1, <1>2 DEF UsedShape
<1> QED
  BY <1>5, <1>6, <1>7, <1>8, <1>9

\* The ways in which a goroutine moves on.
LEMMA ExecMoves ==
    ASSUME exec \in [Migration -> ExecShape], NEW m \in Migration
    PROVE  /\ \A pc \in ExecPc : Goto(m, pc) => exec' \in [Migration -> ExecShape]
           /\ Failing(m) => exec' \in [Migration -> ExecShape]
           /\ \A pc \in ExecPc, r \in {"ok"} \union Faults : Continue(m, r, pc) => exec' \in [Migration -> ExecShape]
           /\ \A pc \in ExecPc : \A r : Restoring(m, r, pc) => exec' \in [Migration -> ExecShape]
<1>1. exec[m] \in ExecShape
  OBVIOUS
<1>2. ASSUME NEW pc \in ExecPc, NEW undo \in {"none", "record", "restore", "broken"}
      PROVE  [exec[m] EXCEPT !.pc = pc] \in ExecShape /\ [exec[m] EXCEPT !.pc = pc, !.undo = undo] \in ExecShape
  BY Zenon, <1>1 DEF ExecShape
<1>3. ASSUME NEW pc \in ExecPc, Goto(m, pc) PROVE exec' \in [Migration -> ExecShape]
  BY Zenon, <1>2, <1>3 DEF Goto
<1>4. ASSUME Failing(m) PROVE exec' \in [Migration -> ExecShape]
  <2> DEFINE pc == IF exec[m].pc \in DropsTarget THEN "drop_holder"
                   ELSE IF exec[m].pc \in RestoresSource THEN "restore_claim" ELSE "save_failed"
  <2>1. pc \in ExecPc
    BY DEF ExecPc
  <2>2. Undo(exec[m].pc) \in {"none", "record", "restore", "broken"}
    BY DEF Undo
  <2>3. exec' = [exec EXCEPT ![m] = [exec[m] EXCEPT !.pc = pc, !.undo = Undo(exec[m].pc)]]
    BY Zenon, <1>4 DEF Failing
  <2> QED
    BY Zenon, <1>2, <2>1, <2>2, <2>3
<1>5. ASSUME NEW pc \in ExecPc, NEW r, Restoring(m, r, pc) PROVE exec' \in [Migration -> ExecShape]
  <2>1. exec' = [exec EXCEPT ![m] = [exec[m] EXCEPT !.pc = pc, !.undo = IF Applied(r) THEN exec[m].undo ELSE "broken"]]
    BY Zenon, <1>5 DEF Restoring
  <2>2. (IF Applied(r) THEN exec[m].undo ELSE "broken") \in {"none", "record", "restore", "broken"}
    BY <1>1 DEF ExecShape
  <2> QED
    BY Zenon, <1>2, <2>1, <2>2
<1> QED
  BY <1>3, <1>4, <1>5 DEF Continue

\* The shape of the state, named for the records.
Shape ==
    /\ row \in [Migration -> RowShape]
    /\ exec \in [Migration -> ExecShape]
    /\ cleaner \in [Migration -> {"idle", "delete", "save"}]
    /\ deleter \in [Claim -> {"idle", "delete"}]
    /\ dep \in DepShape
    /\ tpl \in [Template -> Placement]
    /\ pvc \in [Claim -> {"absent", "pending", "bound", "deleting"}]
    /\ holder \subseteq Migration /\ pods \subseteq Claim
    /\ vol \in [Claim -> SUBSET Written] /\ writes \in 0..MaxWrites
    /\ used \in UsedShape

\* UpdateMigration changes the status of one record.
LEMMA SaveShape ==
    ASSUME Shape, NEW m \in Migration, NEW status \in Status, NEW pc \in ExecPc, SaveStatus(m, status, pc)
    PROVE  Shape'
<1>1. row' \in [Migration -> RowShape]
  <2>1. [row[m] EXCEPT !.status = status] \in RowShape
    BY ZenonT(40) DEF Shape, RowShape
  <2> QED
    BY <2>1 DEF SaveStatus, Shape
<1>2. exec' \in [Migration -> ExecShape]
  <2>1. "done" \in ExecPc
    BY DEF ExecPc
  <2> QED
    BY <2>1, ExecMoves DEF SaveStatus, Shape
<1>3. used' \in UsedShape
  BY Counters DEF SaveStatus, Shape
<1> QED
  BY <1>1, <1>2, <1>3 DEF SaveStatus, Shape, cluster, requests

\* The values calls and switches write into the cluster are well formed.
LEMMA ClusterValues ==
    ASSUME Shape, NEW m \in Migration
    PROVE  /\ row[m] \in RowShape /\ row[m].src \in Claim /\ row[m].srcNode \in Node /\ row[m].node \in Node
           /\ row[m].replicas \in {0, 1} /\ row[m].snapshot \in [Template -> Placement]
           /\ m \in Claim
           /\ \A from, to \in Claim, n \in Node : ReplaceDeploymentPVCNode(from, to, n) \in DepShape
           /\ \A k \in {0, 1} : [dep EXCEPT !.replicas = k] \in DepShape
           /\ \A c \in Claim : Delete(c) \in [Claim -> {"absent", "pending", "bound", "deleting"}]
           /\ \A ts \in SUBSET Template : Moved(m, ts) \in [Template -> Placement]
<1>1. m \in Claim /\ row[m] \in RowShape
  BY DEF Shape, Claim
<1>2. /\ row[m].src \in Claim /\ row[m].srcNode \in Node /\ row[m].node \in Node
      /\ row[m].replicas \in {0, 1} /\ row[m].snapshot \in [Template -> Placement]
  BY <1>1 DEF RowShape
<1>3. \A from, to \in Claim, n \in Node : ReplaceDeploymentPVCNode(from, to, n) \in DepShape
  BY Zenon DEF ReplaceDeploymentPVCNode, Shape, DepShape
<1>4. \A k \in {0, 1} : [dep EXCEPT !.replicas = k] \in DepShape
  BY DEF Shape, DepShape
<1>5. \A c \in Claim : Delete(c) \in [Claim -> {"absent", "pending", "bound", "deleting"}]
  BY DEF Shape, Delete
<1>6. \A ts \in SUBSET Template : Moved(m, ts) \in [Template -> Placement]
  BY <1>1, <1>2 DEF Shape, Moved, Placement
<1> QED
  BY <1>1, <1>2, <1>3, <1>4, <1>5, <1>6

\* The create handler keeps the shape.
LEMMA CreateShape ==
    ASSUME Shape, NEW m \in Migration, CreateHandler(m)
    PROVE  Shape'
<1>1. {"idle", "read_source", "insert", "name_target", "start"} \subseteq ExecPc /\ "pending" \in Status
  BY DEF ExecPc, Handler, Status
<1>2. row[m] \in RowShape /\ dep.replicas \in {0, 1} /\ tpl \in [Template -> Placement]
  BY DEF Shape, DepShape
<1>3. ASSUME NEW c \in Claim, FindActiveMigration(m, c) PROVE Shape'
  <2>1. [row[m] EXCEPT !.src = c] \in RowShape
    BY <1>2 DEF RowShape
  <2>2. exec' \in [Migration -> ExecShape]
    BY Zenon, <1>1, <1>3, ExecMoves DEF FindActiveMigration, Goto, Shape
  <2> QED
    BY <1>3, <2>1, <2>2 DEF FindActiveMigration, Shape, cluster, requests
<1>4. ASSUME NEW n \in Node, ReadSource(m, n) PROVE Shape'
  <2>1. NodeOf(row[m].src) \in Node
    BY <1>2, ConstantsAssumption DEF NodeOf, RowShape, Claim, Shape
  <2>2. [row[m] EXCEPT !.srcNode = NodeOf(row[m].src), !.node = n, !.replicas = dep.replicas, !.snapshot = tpl] \in RowShape
    BY Zenon, <1>2, <2>1 DEF RowShape
  <2>3. exec' \in [Migration -> ExecShape]
    BY <1>1, <1>4, ExecMoves DEF ReadSource, Shape
  <2> QED
    BY Zenon, <1>4, <2>2, <2>3 DEF ReadSource, Shape, cluster, requests
<1>5. ASSUME RejectMigration(m) PROVE Shape'
  <2>1. exec' \in [Migration -> ExecShape]
    BY <1>1, <1>5, ExecMoves DEF RejectMigration, Shape
  <2> QED
    BY <1>5, <2>1 DEF RejectMigration, Shape, cluster, requests
<1>6. ASSUME InsertMigration(m) \/ StartMigration(m) PROVE Shape'
  BY <1>1, <1>6, SaveShape DEF InsertMigration, StartMigration
<1> QED
  BY <1>3, <1>4, <1>5, <1>6 DEF CreateHandler

\* The replies that move a goroutine on.
LEMMA Replies ==
    ASSUME NEW m \in Migration, NEW r \in Reply(m)
    PROVE  r \in {"ok"} \union {"refused", "lost"}
BY ConstantsAssumption DEF Reply

\* Whatever a step of the goroutine does with the reply, it goes to a place.
LEMMA ContinueShape ==
    ASSUME exec \in [Migration -> ExecShape], NEW m \in Migration, NEW pc \in ExecPc, NEW r, Continue(m, r, pc)
    PROVE  exec' \in [Migration -> ExecShape]
BY ExecMoves DEF Continue

\* So do the steps of the goroutine.
LEMMA GoroutineShape ==
    ASSUME Shape, NEW m \in Migration, Goroutine(m)
    PROVE  Shape'
<1>1. /\ {"preflight", "provisioning_target", "stopping_source", "copying", "cutover", "waiting_ready", "cleanup_pending",
          "failed"} \subseteq Status
      /\ {"preflight", "create_claim", "scale_down", "copy_begin", "delete_holder", "wait_ready", "done"} \subseteq ExecPc
  BY DEF Status, ExecPc, DropsTarget, RestoresSource
<1>2. {"save_provisioning", "binding_pod", "wait_bound", "check_path", "save_stopping", "wait_stopped", "save_copying",
       "copy_end", "save_cutover", "replace_claim", "replace_templates", "scale_up", "save_waiting", "save_cleanup",
       "drop_claim", "restore_claim", "save_failed", "restore_replicas", "restore_templates"} \subseteq ExecPc
  BY DEF ExecPc, DropsTarget, RestoresSource
<1>3. CASE \/ SavePreflight(m) \/ SaveProvisioning(m) \/ SaveStopping(m) \/ SaveCopying(m) \/ SaveCutover(m)
           \/ SaveWaiting(m) \/ SaveCleanupPending(m) \/ SaveFailed(m)
  BY <1>1, <1>3, SaveShape DEF SavePreflight, SaveProvisioning, SaveStopping, SaveCopying, SaveCutover,
     SaveWaiting, SaveCleanupPending, SaveFailed
<1>4. CASE EnvironmentMissing(m) \/ WaitReady(m) \/ SkipRestore(m)
  <2>1. exec' \in [Migration -> ExecShape]
    BY <1>2, <1>4, ExecMoves DEF EnvironmentMissing, WaitReady, SkipRestore, Shape
  <2>2. used' \in UsedShape
    BY <1>4, Counters DEF EnvironmentMissing, WaitReady, SkipRestore, Shape
  <2> QED
    BY <1>4, <2>1, <2>2 DEF EnvironmentMissing, WaitReady, SkipRestore, Shape, cluster, requests
<1>5. CASE Preflight(m) \/ WaitBound(m) \/ CheckTargetPath(m) \/ WaitStopped(m)
  <2>1. exec' \in [Migration -> ExecShape]
    BY <1>2, <1>5, ContinueShape DEF Preflight, WaitBound, CheckTargetPath, WaitStopped, Shape
  <2>2. used' \in UsedShape
    BY <1>5, Counters DEF Preflight, WaitBound, CheckTargetPath, WaitStopped, Shape
  <2> QED
    BY <1>5, <2>1, <2>2 DEF Preflight, WaitBound, CheckTargetPath, WaitStopped, Shape, cluster, requests
<1>6. CASE CreateTarget(m) \/ CreateBindingPod(m) \/ DeleteBindingPod(m)
  <2>1. exec' \in [Migration -> ExecShape]
    BY <1>2, <1>6, ContinueShape DEF CreateTarget, CreateBindingPod, DeleteBindingPod, Shape
  <2>2. used' \in UsedShape
    BY <1>6, Counters DEF CreateTarget, CreateBindingPod, DeleteBindingPod, Shape
  <2>3. pvc' \in [Claim -> {"absent", "pending", "bound", "deleting"}] /\ holder' \subseteq Migration
    BY <1>6 DEF CreateTarget, CreateBindingPod, DeleteBindingPod, Shape
  <2> QED
    BY <1>6, <2>1, <2>2, <2>3 DEF CreateTarget, CreateBindingPod, DeleteBindingPod, Shape, requests
<1>7. CASE DropBindingPod(m) \/ DropTarget(m)
  <2>1. exec' \in [Migration -> ExecShape]
    BY <1>2, <1>7, ExecMoves DEF DropBindingPod, DropTarget, Shape
  <2>2. used' \in UsedShape
    BY <1>7, Counters DEF DropBindingPod, DropTarget, Shape
  <2>3. pvc' \in [Claim -> {"absent", "pending", "bound", "deleting"}] /\ holder' \subseteq Migration
    BY <1>7, ClusterValues DEF DropBindingPod, DropTarget, Shape
  <2> QED
    BY <1>7, <2>1, <2>2, <2>3 DEF DropBindingPod, DropTarget, Shape, requests
<1>8. CASE ScaleDown(m) \/ ReplaceClaim(m) \/ ScaleUp(m)
  <2>1. exec' \in [Migration -> ExecShape]
    BY <1>2, <1>8, ContinueShape DEF ScaleDown, ReplaceClaim, ScaleUp, Shape
  <2>2. used' \in UsedShape
    BY <1>8, Counters DEF ScaleDown, ReplaceClaim, ScaleUp, Shape
  <2>3. dep' \in DepShape
    <3>1. dep' \in {dep, [dep EXCEPT !.replicas = 0], [dep EXCEPT !.replicas = row[m].replicas],
                   ReplaceDeploymentPVCNode(row[m].src, m, row[m].node)}
      BY <1>8 DEF ScaleDown, ReplaceClaim, ScaleUp
    <3>2. /\ [dep EXCEPT !.replicas = 0] \in DepShape /\ [dep EXCEPT !.replicas = row[m].replicas] \in DepShape
          /\ ReplaceDeploymentPVCNode(row[m].src, m, row[m].node) \in DepShape
      BY ClusterValues
    <3> QED
      BY <3>1, <3>2 DEF Shape
  <2> QED
    BY <1>8, <2>1, <2>2, <2>3 DEF ScaleDown, ReplaceClaim, ScaleUp, Shape, requests
<1>9. CASE RestoreClaim(m) \/ RestoreReplicas(m)
  <2>1. exec' \in [Migration -> ExecShape]
    BY <1>2, <1>9, ExecMoves DEF RestoreClaim, RestoreReplicas, Shape
  <2>2. used' \in UsedShape
    BY <1>9, Counters DEF RestoreClaim, RestoreReplicas, Shape
  <2>3. dep' \in DepShape
    <3>1. dep' \in {dep, [dep EXCEPT !.replicas = row[m].replicas],
                   ReplaceDeploymentPVCNode(m, row[m].src, row[m].srcNode)}
      BY <1>9 DEF RestoreClaim, RestoreReplicas
    <3>2. /\ [dep EXCEPT !.replicas = row[m].replicas] \in DepShape
          /\ ReplaceDeploymentPVCNode(m, row[m].src, row[m].srcNode) \in DepShape
      BY ClusterValues
    <3> QED
      BY <3>1, <3>2 DEF Shape
  <2> QED
    BY <1>9, <2>1, <2>2, <2>3 DEF RestoreClaim, RestoreReplicas, Shape, requests
<1>10. CASE ReplaceTemplates(m)
  <2>1. exec' \in [Migration -> ExecShape] /\ used' \in UsedShape
    BY <1>2, <1>10, ContinueShape, Counters DEF ReplaceTemplates, Shape
  <2>2. tpl' \in [Template -> Placement]
    BY <1>10, ClusterValues DEF ReplaceTemplates
  <2> QED
    BY <1>10, <2>1, <2>2 DEF ReplaceTemplates, Shape, cluster, requests
<1>11. CASE RestoreTemplates(m)
  <2>1. exec' \in [Migration -> ExecShape] /\ used' \in UsedShape
    BY <1>2, <1>11, ExecMoves, Counters DEF RestoreTemplates, Shape
  <2>2. tpl' \in [Template -> Placement]
    BY <1>11, ClusterValues DEF RestoreTemplates, Shape
  <2> QED
    BY <1>11, <2>1, <2>2 DEF RestoreTemplates, Shape, cluster, requests
<1>12. CASE CopyBegin(m)
  <2>1. vol[row[m].src] \in SUBSET Written /\ exec[m] \in ExecShape
    BY ClusterValues DEF Shape
  <2>2. [exec[m] EXCEPT !.pc = "copy_end", !.data = vol[row[m].src]] \in ExecShape
    BY Zenon, <1>2, <2>1 DEF ExecShape
  <2>3. exec' \in [Migration -> ExecShape]
    BY Zenon, <1>12, <2>2, ExecMoves DEF CopyBegin, Shape
  <2>4. used' \in UsedShape
    BY <1>12, Counters DEF CopyBegin, Shape
  <2> QED
    BY <1>12, <2>3, <2>4 DEF CopyBegin, Shape, cluster, requests
<1>13. CASE CopyEnd(m)
  <2>1. exec[m].data \subseteq Written /\ m \in Claim
    BY Zenon DEF Shape, ExecShape, Claim
  <2>2. vol' \in [Claim -> SUBSET Written]
    BY <1>13, <2>1 DEF CopyEnd, Shape
  <2>3. exec' \in [Migration -> ExecShape] /\ used' \in UsedShape
    BY <1>2, <1>13, ContinueShape, Counters DEF CopyEnd, Shape
  <2> QED
    BY <1>13, <2>2, <2>3 DEF CopyEnd, Shape, requests
<1> QED
  BY <1>3, <1>4, <1>5, <1>6, <1>7, <1>8, <1>9, <1>10, <1>11, <1>12, <1>13 DEF Goroutine

\* And the steps of everyone else.
LEMMA RequestShape ==
    ASSUME Shape, NEW m \in Migration, Deadline(m) \/ Cleanup(m) \/ BindClaim(m)
    PROVE  Shape'
<1>1. m \in Claim /\ row[m] \in RowShape /\ exec[m] \in ExecShape
  BY DEF Shape, Claim
<1>2. CASE Deadline(m)
  <2>1. [exec[m] EXCEPT !.ctx = "expired"] \in ExecShape
    BY <1>1 DEF ExecShape
  <2>2. exec' \in [Migration -> ExecShape]
    BY <1>2, <2>1 DEF Deadline, Shape
  <2>3. used' \in UsedShape
    BY <1>2, Counters DEF Deadline, Shape
  <2> QED
    BY <1>2, <2>2, <2>3 DEF Deadline, Shape, cluster, requests
<1>3. CASE CleanupCheck(m)
  BY <1>3 DEF CleanupCheck, Shape, cluster
<1>4. CASE CleanupDelete(m)
  <2>1. used' \in UsedShape
    BY <1>4, Counters DEF CleanupDelete, Shape
  <2>2. pvc' \in [Claim -> {"absent", "pending", "bound", "deleting"}]
    BY <1>4, ClusterValues DEF CleanupDelete, Shape
  <2>3. cleaner' \in [Migration -> {"idle", "delete", "save"}]
    BY <1>4 DEF CleanupDelete, Shape
  <2> QED
    BY <1>4, <2>1, <2>2, <2>3 DEF CleanupDelete, Shape
<1>5. CASE CleanupSave(m)
  <2>1. [row[m] EXCEPT !.status = "cleaned"] \in RowShape
    BY <1>1 DEF RowShape, Status
  <2>2. row' \in [Migration -> RowShape]
    BY <1>5, <2>1 DEF CleanupSave, Shape
  <2>3. used' \in UsedShape
    BY <1>5, Counters DEF CleanupSave, Shape
  <2> QED
    BY <1>5, <2>2, <2>3 DEF CleanupSave, Shape, cluster
<1>6. CASE BindClaim(m)
  BY Zenon, <1>6 DEF BindClaim, Shape, requests
<1> QED
  BY <1>2, <1>3, <1>4, <1>5, <1>6 DEF Cleanup

LEMMA ClaimShape ==
    ASSUME Shape, NEW c \in Claim, DeleteCheck(c) \/ DeleteClaim(c) \/ ReclaimClaim(c) \/ StopPod(c) \/ Write(c)
    PROVE  Shape'
<1>1. CASE DeleteCheck(c)
  <2>1. /\ used.faults \in 0..MaxFaults /\ used.db \in 0..MaxDBFaults /\ MaxFaults \in Nat /\ MaxDBFaults \in Nat
        /\ used \in UsedShape
    BY ConstantsAssumption DEF Shape, UsedShape
  <2>2. PICK r \in Call, d \in DBWrite :
          used' = [used EXCEPT !.faults = IF r = "ok" THEN @ ELSE @ + 1, !.db = IF d = "ok" THEN @ ELSE @ + 1]
    BY Zenon, <1>1 DEF DeleteCheck
  <2>3. (r # "ok" => used.faults < MaxFaults) /\ (d # "ok" => used.db < MaxDBFaults)
    BY DEF Call, DBWrite
  <2>4. /\ (IF r = "ok" THEN used.faults ELSE used.faults + 1) \in 0..MaxFaults
        /\ (IF d = "ok" THEN used.db ELSE used.db + 1) \in 0..MaxDBFaults
    BY <2>1, <2>3
  <2>5. used' \in UsedShape
    BY Zenon, <2>1, <2>2, <2>4 DEF UsedShape
  <2> QED
    BY Zenon, <1>1, <2>5 DEF DeleteCheck, Shape, cluster
<1>2. CASE DeleteClaim(c)
  <2>1. used' \in UsedShape
    BY <1>2, Counters DEF DeleteClaim, Shape
  <2>2. pvc' \in [Claim -> {"absent", "pending", "bound", "deleting"}]
    BY <1>2 DEF DeleteClaim, Shape, Delete
  <2> QED
    BY <1>2, <2>1, <2>2 DEF DeleteClaim, Shape
<1>3. CASE ReclaimClaim(c) \/ StopPod(c)
  BY <1>3 DEF ReclaimClaim, StopPod, Shape, requests
<1>4. CASE Write(c)
  <2>1. writes + 1 \in Written /\ writes' \in 0..MaxWrites
    BY <1>4, ConstantsAssumption DEF Write, Written, Shape
  <2>2. vol' \in [Claim -> SUBSET Written]
    BY <1>4, <2>1 DEF Write, Shape
  <2> QED
    BY Zenon, <1>4, <2>1, <2>2 DEF Write, Shape, requests
<1> QED
  BY <1>1, <1>2, <1>3, <1>4

LEMMA SystemShape ==
    ASSUME Shape, StartPod \/ Crash \/ \E t \in Template : DeployRelease(t)
    PROVE  Shape'
<1>1. CASE StartPod
  BY <1>1 DEF StartPod, Shape, DepShape, requests
<1>2. CASE Crash
  <2>1. ASSUME NEW m \in Migration PROVE [exec[m] EXCEPT !.pc = IF row[m].status = "absent" THEN "idle" ELSE "done"] \in ExecShape
    <3>1. exec[m] \in ExecShape /\ {"idle", "done"} \subseteq ExecPc
      BY DEF Shape, ExecPc, Handler
    <3> QED
      BY <3>1 DEF ExecShape
  <2>2. exec' \in [Migration -> ExecShape]
    BY <1>2, <2>1 DEF Crash
  <2>3. used' \in UsedShape
    BY <1>2, Counters DEF Crash, Shape
  <2> QED
    BY <1>2, <2>2, <2>3 DEF Crash, Shape, cluster
<1>3. ASSUME NEW t \in Template, DeployRelease(t) PROVE Shape'
  <2>1. tpl[t] \in Placement
    BY DEF Shape
  <2>2. dep' \in DepShape
    BY <1>3, <2>1 DEF DeployRelease, DepShape, Placement
  <2>3. used' \in UsedShape
    BY Zenon, <1>3, Counters DEF DeployRelease, Shape
  <2> QED
    BY <1>3, <2>2, <2>3 DEF DeployRelease, Shape, requests
<1> QED
  BY <1>1, <1>2, <1>3

LEMMA InitShape == Init => Shape
<1> SUFFICES ASSUME Init PROVE Shape
  OBVIOUS
<1>1. Origin \in Claim /\ Home \in Node /\ {"idle"} \subseteq ExecPc /\ "absent" \in Status
  BY ConstantsAssumption DEF Claim, ExecPc, Handler, Status
<1>2. row \in [Migration -> RowShape]
  BY Zenon, <1>1 DEF Init, RowShape, Placement
<1>3. exec \in [Migration -> ExecShape]
  BY Zenon, <1>1 DEF Init, ExecShape
<1>4. dep \in DepShape /\ tpl \in [Template -> Placement]
  BY <1>1 DEF Init, DepShape, Placement
<1>5. used \in UsedShape /\ writes \in 0..MaxWrites
  BY ConstantsAssumption DEF Init, UsedShape
<1> QED
  BY Zenon, <1>2, <1>3, <1>4, <1>5 DEF Init, Shape

\* The state stays well formed, whatever runs next to each other.
THEOREM TypeCorrect == Spec => []TypeOK
<1>1. TypeOK <=> Shape
  BY DEF TypeOK, Shape, RowShape, ExecShape, DepShape, UsedShape
<1>2. Shape /\ [Next]_vars => Shape'
  <2> SUFFICES ASSUME Shape, [Next]_vars PROVE Shape'
    OBVIOUS
  <2>1. CASE UNCHANGED vars
    BY <2>1 DEF vars, Shape
  <2>2. ASSUME NEW m \in Migration, CreateHandler(m) \/ Goroutine(m) \/ Deadline(m) \/ Cleanup(m) \/ BindClaim(m) PROVE Shape'
    BY <2>2, CreateShape, GoroutineShape, RequestShape
  <2>3. ASSUME NEW c \in Claim, DeleteCheck(c) \/ DeleteClaim(c) \/ ReclaimClaim(c) \/ StopPod(c) \/ Write(c) PROVE Shape'
    BY <2>3, ClaimShape
  <2>4. CASE StartPod \/ Crash \/ \E t \in Template : DeployRelease(t)
    BY <2>4, SystemShape
  <2> QED
    BY <2>1, <2>2, <2>3, <2>4 DEF Next
<1> QED
  BY <1>1, <1>2, InitShape, PTL DEF Spec

-----------------------------------------------------------------------------
(* The node of the Deployment, with overlapping migrations and releases.   *)

\* The goroutine's work, from the insert of its record on.
Busy == ExecPc \ {"idle", "read_source", "done"}

\* Everything from there on is work on a migration.
LEMMA Working ==
    /\ {"save_provisioning", "binding_pod", "wait_bound", "check_path", "save_stopping", "wait_stopped", "save_copying",
        "copy_end", "save_cutover", "replace_claim", "scale_up", "save_waiting", "save_cleanup"} \subseteq Busy \ {"insert"}
    /\ {"drop_holder", "drop_claim", "restore_claim", "restore_replicas", "restore_templates", "save_failed", "start",
        "name_target", "scale_down", "copy_begin", "delete_holder", "wait_ready", "preflight", "create_claim",
        "replace_templates"} \subseteq Busy \ {"insert"}
BY Zenon DEF Busy, ExecPc, DropsTarget, RestoresSource, Handler

\* A claim exists, and is used or migrated, only once it has a record; the record
\* of a migration names the node of its source.
Named(m) ==
    /\ exec[m].pc \in {"idle", "read_source", "insert"} => row[m].status = "absent"
    /\ exec[m].pc \in Busy \ {"insert"} => row[m].status # "absent"
    /\ row[m].status = "absent" => pvc[m] = "absent" /\ dep.claim # m
    /\ row[m].status # "absent" \/ exec[m].pc = "insert" =>
         /\ row[m].src # m /\ row[m].srcNode = NodeOf(row[m].src)
         /\ row[m].src \in Migration => row[row[m].src].status # "absent"
    /\ cleaner[m] # "idle" => row[m].status # "absent"

NInv == Shape /\ DeploymentOnVolumeNode /\ \A m \in Migration : Named(m)

\* Steps that change no record.
LEMMA NamesKept ==
    ASSUME NInv, Shape', UNCHANGED row,
           \A n \in Migration : \/ exec'[n].pc = exec[n].pc
                                \/ row[n].status # "absent" /\ exec'[n].pc \notin {"idle", "read_source", "insert"}
                                \/ row[n].status = "absent" /\ exec'[n].pc \in {"idle", "done"},
           \A n \in Migration : row[n].status = "absent" => pvc'[n] = "absent" /\ cleaner'[n] = "idle",
           dep'.claim \in Migration => row[dep'.claim].status # "absent",
           dep'.node = NodeOf(dep'.claim)
    PROVE  NInv'
<1>1. DeploymentOnVolumeNode'
  BY Zenon DEF DeploymentOnVolumeNode, NodeOf
<1>2. ASSUME NEW n \in Migration PROVE Named(n)'
  <2>1. Named(n)
    BY Zenon DEF NInv
  <2>2. NodeOf(row[n].src)' = NodeOf(row[n].src)
    BY Zenon DEF NodeOf
  <2> QED
    BY Zenon, <2>1, <2>2 DEF Named, Busy
<1> QED
  BY Zenon, <1>1, <1>2 DEF NInv

\* How a goroutine moves.
LEMMA Movements ==
    ASSUME Shape, NEW m \in Migration, NEW pc \in Busy \ {"insert"}, NEW r,
           Continue(m, r, pc) \/ Goto(m, pc) \/ Failing(m) \/ Restoring(m, r, pc)
    PROVE  exec'[m].pc \notin {"idle", "read_source", "insert"} /\ \A n \in Migration \ {m} : exec'[n] = exec[n]
<1>1. exec[m] \in ExecShape /\ exec \in [Migration -> ExecShape]
  BY DEF Shape
<1>2. CASE Goto(m, pc)
  BY <1>1, <1>2 DEF Goto, ExecShape, Busy
<1>3. CASE Failing(m)
  <2> DEFINE p == IF exec[m].pc \in DropsTarget THEN "drop_holder"
                  ELSE IF exec[m].pc \in RestoresSource THEN "restore_claim" ELSE "save_failed"
  <2>1. exec' = [exec EXCEPT ![m] = [exec[m] EXCEPT !.pc = p, !.undo = Undo(exec[m].pc)]]
    BY Zenon, <1>3 DEF Failing
  <2>2. p \in {"drop_holder", "restore_claim", "save_failed"}
    OBVIOUS
  <2> HIDE DEF p
  <2> QED
    BY <1>1, <2>1, <2>2 DEF ExecShape
<1>4. CASE Restoring(m, r, pc)
  BY <1>1, <1>4 DEF Restoring, ExecShape, Busy
<1> QED
  BY <1>2, <1>3, <1>4 DEF Continue

\* The goroutine outside its saves: it works on a migration with a record, whose
\* claims have one too.
LEMMA WorkNames ==
    ASSUME NInv, NEW m \in Migration, Goroutine(m), UNCHANGED <<row, cleaner>>,
           exec'[m].pc \notin {"idle", "read_source", "insert"} /\ \A n \in Migration \ {m} : exec'[n] = exec[n],
           exec[m].pc \in Busy \ {"insert"},
           \A n \in Migration \ {m} : pvc'[n] = pvc[n],
           \/ dep'.claim = dep.claim /\ dep'.node = dep.node
           \/ dep'.claim = m /\ dep'.node = row[m].node
           \/ dep'.claim = row[m].src /\ dep'.node = row[m].srcNode
    PROVE  NInv'
<1>1. Shape'
  BY Zenon, GoroutineShape DEF NInv
<1>2. Named(m) /\ row[m].status # "absent" /\ row[m].srcNode = NodeOf(row[m].src)
  BY DEF NInv, Named
<1>3. NodeOf(m) = row[m].node
  BY ConstantsAssumption DEF NodeOf
<1>4. dep.node = NodeOf(dep.claim) /\ (dep.claim \in Migration => row[dep.claim].status # "absent")
  BY Zenon DEF NInv, DeploymentOnVolumeNode, Named
<1>5. dep'.node = NodeOf(dep'.claim) /\ (dep'.claim \in Migration => row[dep'.claim].status # "absent")
  BY Zenon, <1>2, <1>3, <1>4 DEF Named
<1>6. \A n \in Migration : row[n].status = "absent" => pvc'[n] = "absent" /\ cleaner'[n] = "idle"
  BY ZenonT(40), <1>2 DEF NInv, Named
<1>7. \A n \in Migration : \/ exec'[n].pc = exec[n].pc
                           \/ row[n].status # "absent" /\ exec'[n].pc \notin {"idle", "read_source", "insert"}
  BY <1>2
<1> QED
  BY Zenon, <1>1, <1>5, <1>6, <1>7, NamesKept

\* A saved status changes no other field, and is not "absent".
LEMMA SaveNames ==
    ASSUME NInv, Shape', NEW m \in Migration, exec[m].pc \in Busy,
           NEW status \in Status \ {"absent"}, NEW pc \in (Busy \ {"insert"}) \union {"done"}, SaveStatus(m, status, pc)
    PROVE  NInv'
<1>1. UNCHANGED <<dep, pvc, cleaner>>
  BY DEF SaveStatus, cluster, requests
<1>2. row[m] \in RowShape /\ exec[m] \in ExecShape
  BY DEF NInv, Shape
<1>3. /\ \A n \in Migration \ {m} : row'[n] = row[n] /\ exec'[n] = exec[n]
      /\ row'[m].src = row[m].src /\ row'[m].srcNode = row[m].srcNode /\ row'[m].node = row[m].node
      /\ \/ row'[m].status = status /\ exec'[m].pc = pc
         \/ row'[m].status = row[m].status /\ exec'[m].pc = "done"
  BY <1>2 DEF SaveStatus, Goto, NInv, Shape, RowShape, ExecShape
<1>4. \A n \in Migration : row[n].status # "absent" => row'[n].status # "absent"
  BY Zenon, <1>3
<1>5. DeploymentOnVolumeNode'
  BY Zenon, <1>1, <1>3 DEF NInv, DeploymentOnVolumeNode, NodeOf, Shape, DepShape, Claim
<1>6. ASSUME NEW n \in Migration PROVE Named(n)'
  <2>1. Named(n) /\ row[n].src \in Claim
    BY Zenon DEF NInv, Shape, RowShape
  <2>2. NodeOf(row[n].src)' = NodeOf(row[n].src)
    BY Zenon, <1>3, <2>1 DEF NodeOf, Claim
  <2>3. CASE n = m
    BY ZenonT(40), <1>1, <1>3, <1>4, <2>1, <2>2, <2>3 DEF Named, Busy
  <2>4. CASE n # m
    BY Zenon, <1>1, <1>3, <1>4, <2>1, <2>2, <2>4 DEF Named, Busy
  <2> QED
    BY Zenon, <2>3, <2>4
<1> QED
  BY <1>5, <1>6 DEF NInv

LEMMA GoroutineNames ==
    ASSUME NInv, NEW m \in Migration, Goroutine(m)
    PROVE  NInv'
<1>1. Shape'
  BY GoroutineShape DEF NInv
<1>2. dep \in DepShape /\ pvc \in [Claim -> {"absent", "pending", "bound", "deleting"}] /\ m \in Claim /\ Shape
  BY Zenon DEF NInv, Shape, Claim
<1>3. CASE \/ SavePreflight(m) \/ SaveProvisioning(m) \/ SaveStopping(m) \/ SaveCopying(m) \/ SaveCutover(m)
           \/ SaveWaiting(m) \/ SaveCleanupPending(m) \/ SaveFailed(m)
  <2>1. PICK status \in {"preflight", "provisioning_target", "stopping_source", "copying", "cutover", "waiting_ready",
                         "cleanup_pending", "failed"},
             pc \in {"preflight", "create_claim", "scale_down", "copy_begin", "delete_holder", "wait_ready", "done"} :
          /\ SaveStatus(m, status, pc)
          /\ exec[m].pc \in {"start", "save_provisioning", "save_stopping", "save_copying", "save_cutover", "save_waiting",
                             "save_cleanup", "save_failed"}
    BY <1>3 DEF SavePreflight, SaveProvisioning, SaveStopping, SaveCopying, SaveCutover, SaveWaiting,
       SaveCleanupPending, SaveFailed, At
  <2>2. status \in Status \ {"absent"} /\ pc \in (Busy \ {"insert"}) \union {"done"} /\ exec[m].pc \in Busy
    BY Zenon, <2>1, Working DEF Status
  <2> QED
    BY ZenonT(40), <1>1, <2>1, <2>2, SaveNames
<1>4. CASE \/ Preflight(m) \/ CreateTarget(m) \/ CreateBindingPod(m) \/ WaitBound(m) \/ CheckTargetPath(m)
           \/ WaitStopped(m) \/ CopyEnd(m) \/ DeleteBindingPod(m) \/ ReplaceTemplates(m)
  <2>1. UNCHANGED <<row, dep, cleaner>> /\ \A n \in Migration \ {m} : pvc'[n] = pvc[n]
    BY Zenon, <1>2, <1>4 DEF Preflight, CreateTarget, CreateBindingPod, WaitBound, CheckTargetPath, WaitStopped, CopyEnd,
       DeleteBindingPod, ReplaceTemplates, cluster, requests, Claim
  <2>2. \E pc \in Busy \ {"insert"}, r \in {"ok", "refused", "lost", "error"} : Continue(m, r, pc)
    BY Zenon, <1>4, Replies, Working DEF Preflight, CreateTarget, CreateBindingPod, WaitBound, CheckTargetPath, WaitStopped, CopyEnd,
       DeleteBindingPod, ReplaceTemplates, DBWrite
  <2>3. exec[m].pc \in Busy \ {"insert"}
    BY Zenon, <1>4, Working DEF Preflight, CreateTarget, CreateBindingPod, WaitBound, CheckTargetPath, WaitStopped, CopyEnd,
       DeleteBindingPod, ReplaceTemplates, At
  <2>4. exec'[m].pc \notin {"idle", "read_source", "insert"} /\ \A n \in Migration \ {m} : exec'[n] = exec[n]
    BY Zenon, <1>2, <2>2, Movements
  <2> QED
    BY Zenon, <2>1, <2>3, <2>4, WorkNames
<1>5. CASE ScaleDown(m) \/ ReplaceClaim(m) \/ ScaleUp(m)
  <2>1. UNCHANGED <<row, pvc, cleaner>>
    BY <1>5 DEF ScaleDown, ReplaceClaim, ScaleUp, requests
  <2>2. \E pc \in Busy \ {"insert"}, r \in {"ok", "refused", "lost", "error"} : Continue(m, r, pc)
    BY <1>5, Replies, Working DEF ScaleDown, ReplaceClaim, ScaleUp
  <2>3. exec[m].pc \in Busy \ {"insert"}
    BY Zenon, <1>5, Working DEF ScaleDown, ReplaceClaim, ScaleUp, At
  <2>4. exec'[m].pc \notin {"idle", "read_source", "insert"} /\ \A n \in Migration \ {m} : exec'[n] = exec[n]
    BY <1>2, <2>2, Movements
  <2>5. (dep'.claim = dep.claim /\ dep'.node = dep.node) \/ (dep'.claim = m /\ dep'.node = row[m].node)
    BY Zenon, <1>2, <1>5 DEF ScaleDown, ReplaceClaim, ScaleUp, ReplaceDeploymentPVCNode, DepShape
  <2> QED
    BY <2>1, <2>3, <2>4, <2>5, WorkNames
<1>6. CASE RestoreClaim(m) \/ RestoreReplicas(m)
  <2>1. UNCHANGED <<row, pvc, cleaner>>
    BY <1>6 DEF RestoreClaim, RestoreReplicas, requests
  <2>2. \E pc \in Busy \ {"insert"}, r \in {"ok", "refused", "lost"} : Restoring(m, r, pc)
    BY <1>6, Replies, Working DEF RestoreClaim, RestoreReplicas
  <2>3. exec[m].pc \in Busy \ {"insert"}
    BY <1>6, Working DEF RestoreClaim, RestoreReplicas, At
  <2>4. exec'[m].pc \notin {"idle", "read_source", "insert"} /\ \A n \in Migration \ {m} : exec'[n] = exec[n]
    BY Zenon, <1>2, <2>2, Movements
  <2>5. (dep'.claim = dep.claim /\ dep'.node = dep.node) \/ (dep'.claim = row[m].src /\ dep'.node = row[m].srcNode)
    BY Zenon, <1>2, <1>6 DEF RestoreClaim, RestoreReplicas, ReplaceDeploymentPVCNode, DepShape
  <2> QED
    BY Zenon, <2>1, <2>3, <2>4, <2>5, WorkNames
<1>7. CASE EnvironmentMissing(m) \/ WaitReady(m) \/ SkipRestore(m) \/ RestoreTemplates(m)
  <2>1. UNCHANGED <<row, dep, pvc, cleaner>>
    BY Zenon, <1>7 DEF EnvironmentMissing, WaitReady, SkipRestore, RestoreTemplates, cluster, requests
  <2>2. \E pc \in Busy \ {"insert"}, r \in {"ok", "refused"} : Goto(m, pc) \/ Failing(m) \/ Restoring(m, r, pc)
    BY <1>7, Working DEF EnvironmentMissing, WaitReady, SkipRestore, RestoreTemplates
  <2>3. exec[m].pc \in Busy \ {"insert"}
    BY Zenon, <1>7, Working DEF EnvironmentMissing, WaitReady, SkipRestore, RestoreTemplates, At
  <2>4. exec'[m].pc \notin {"idle", "read_source", "insert"} /\ \A n \in Migration \ {m} : exec'[n] = exec[n]
    BY Zenon, <1>2, <2>2, Movements
  <2> QED
    BY <2>1, <2>3, <2>4, WorkNames
<1>8. CASE DropBindingPod(m) \/ DropTarget(m)
  <2>1. UNCHANGED <<row, dep, cleaner>> /\ \A n \in Migration \ {m} : pvc'[n] = pvc[n]
    BY Zenon, <1>2, <1>8 DEF DropBindingPod, DropTarget, Delete, requests, Claim
  <2>2. \E pc \in Busy \ {"insert"} : Goto(m, pc)
    BY Zenon, <1>8, Working DEF DropBindingPod, DropTarget
  <2>3. exec[m].pc \in Busy \ {"insert"}
    BY Zenon, <1>8, Working DEF DropBindingPod, DropTarget, At
  <2>4. exec'[m].pc \notin {"idle", "read_source", "insert"} /\ \A n \in Migration \ {m} : exec'[n] = exec[n]
    BY Zenon, <1>2, <2>2, Movements
  <2> QED
    BY <2>1, <2>3, <2>4, WorkNames
<1>9. CASE CopyBegin(m)
  <2>1. UNCHANGED <<row, dep, pvc, cleaner>> /\ exec[m].pc \in Busy \ {"insert"}
    BY Zenon, <1>9, Working DEF CopyBegin, cluster, requests, At
  <2>2. exec'[m].pc \notin {"idle", "read_source", "insert"} /\ \A n \in Migration \ {m} : exec'[n] = exec[n]
    <3>1. CASE Failing(m)
      <4>1. "copy_end" \in Busy \ {"insert"}
        BY Working
      <4> QED
        BY <1>2, <3>1, <4>1, Movements
    <3>2. CASE ~Failing(m)
      <4>1. exec' = [exec EXCEPT ![m].pc = "copy_end", ![m].data = vol[row[m].src]]
        BY <1>9, <3>2 DEF CopyBegin
      <4>2. exec[m] \in ExecShape /\ exec \in [Migration -> ExecShape]
        BY <1>2 DEF Shape
      <4> QED
        BY <4>1, <4>2 DEF ExecShape
    <3> QED
      BY Zenon, <3>1, <3>2
  <2> QED
    BY <2>1, <2>2, WorkNames
<1> QED
  BY <1>3, <1>4, <1>5, <1>6, <1>7, <1>8, <1>9 DEF Goroutine

LEMMA CreateNames ==
    ASSUME NInv, NEW m \in Migration, CreateHandler(m)
    PROVE  NInv'
<1>1. Shape'
  BY CreateShape DEF NInv
<1>2. row[m] \in RowShape /\ exec[m] \in ExecShape /\ Named(m)
  BY DEF NInv, Shape
<1>3. CASE InsertMigration(m) \/ StartMigration(m)
  <2>1. {"insert", "name_target", "start"} \subseteq Busy /\ "pending" \in Status
    BY Zenon DEF Busy, ExecPc, Handler, Status
  <2> QED
    BY <1>1, <1>3, <2>1, SaveNames DEF InsertMigration, StartMigration, At
<1>4. CASE RejectMigration(m)
  <2>1. UNCHANGED <<row, dep, pvc, cleaner>> /\ row[m].status = "absent"
    BY <1>2, <1>4 DEF RejectMigration, cluster, requests, At, Named
  <2>2. exec'[m].pc = "idle" /\ \A n \in Migration \ {m} : exec'[n] = exec[n]
    BY Zenon, <1>2, <1>4 DEF RejectMigration, Goto, NInv, Shape, ExecShape
  <2>3. /\ \A n \in Migration : row[n].status = "absent" => pvc'[n] = "absent" /\ cleaner'[n] = "idle"
        /\ dep'.claim \in Migration => row[dep'.claim].status # "absent"
        /\ dep'.node = NodeOf(dep'.claim)
    BY <2>1 DEF NInv, Named, DeploymentOnVolumeNode
  <2> QED
    BY Zenon, <1>1, <2>1, <2>2, <2>3, NamesKept
<1>5. ASSUME NEW c \in Claim, FindActiveMigration(m, c) PROVE NInv'
  <2>1. UNCHANGED <<dep, pvc, cleaner>> /\ exec[m].pc = "idle" /\ row[m].status = "absent"
    BY <1>5 DEF FindActiveMigration, cluster, requests, At
  <2>2. /\ \A n \in Migration \ {m} : row'[n] = row[n] /\ exec'[n] = exec[n]
        /\ row'[m].status = "absent" /\ row'[m].node = row[m].node /\ exec'[m].pc = "read_source"
    BY Zenon, <1>2, <1>5, <2>1 DEF FindActiveMigration, NInv, Shape, RowShape, ExecShape
  <2>3. DeploymentOnVolumeNode'
    BY Zenon, <2>1, <2>2 DEF NInv, DeploymentOnVolumeNode, NodeOf, Shape, DepShape, Claim
  <2>4. Named(m)'
    BY Zenon, <1>2, <2>1, <2>2 DEF Named, Busy
  <2>5. ASSUME NEW n \in Migration \ {m} PROVE Named(n)'
    <3>1. Named(n) /\ row[n].src \in Claim
      BY Zenon DEF NInv, Shape, RowShape
    <3>2. NodeOf(row[n].src)' = NodeOf(row[n].src)
      BY <2>2, <3>1 DEF NodeOf, Claim
    <3> QED
      BY <2>1, <2>2, <3>1, <3>2 DEF Named
  <2> QED
    BY <1>1, <2>3, <2>4, <2>5 DEF NInv
<1>6. ASSUME NEW k \in Node, ReadSource(m, k) PROVE NInv'
  <2>1. UNCHANGED <<dep, pvc, cleaner>> /\ exec[m].pc = "read_source" /\ pvc[row[m].src] = "bound" /\ dep.claim = row[m].src
    BY <1>6 DEF ReadSource, cluster, requests, At
  <2>2. /\ \A n \in Migration \ {m} : row'[n] = row[n] /\ exec'[n] = exec[n]
        /\ row'[m].status = row[m].status /\ row'[m].src = row[m].src /\ exec'[m].pc = "insert"
        /\ row'[m].srcNode = NodeOf(row[m].src)
    BY Zenon, <1>2, <1>6 DEF ReadSource, Goto, NInv, Shape, RowShape, ExecShape
  <2>3. /\ row[m].status = "absent" /\ row[m].src # m /\ row[m].src \in Claim /\ dep.claim # m
        /\ row[m].src \in Migration => row[row[m].src].status # "absent"
    <3>1. row[m].status = "absent" /\ pvc[m] = "absent" /\ dep.claim # m
      BY Zenon, <1>2, <2>1 DEF Named
    <3> QED
      BY Zenon, <1>2, <2>1, <3>1 DEF NInv, Named, RowShape
  <2>4. DeploymentOnVolumeNode'
    BY Zenon, <2>1, <2>2, <2>3 DEF NInv, DeploymentOnVolumeNode, NodeOf, Shape, DepShape, Claim
  <2>5. Named(m)'
    <3>1. NodeOf(row[m].src)' = NodeOf(row[m].src)
      BY Zenon, <2>2, <2>3 DEF NodeOf, Claim
    <3> QED
      BY Zenon, <1>2, <2>1, <2>2, <2>3, <3>1 DEF Named, Busy
  <2>6. ASSUME NEW n \in Migration \ {m} PROVE Named(n)'
    <3>1. Named(n) /\ row[n].src \in Claim
      BY Zenon DEF NInv, Shape, RowShape
    <3>2. row[n].status # "absent" \/ exec[n].pc = "insert" => row[n].src # m
      BY Zenon, <2>3, <3>1 DEF Named
    <3>3. row[n].src # m => NodeOf(row[n].src)' = NodeOf(row[n].src)
      BY <2>2, <3>1 DEF NodeOf, Claim
    <3> QED
      BY <2>1, <2>2, <3>1, <3>2, <3>3 DEF Named
  <2> QED
    BY <1>1, <2>4, <2>5, <2>6 DEF NInv
<1> QED
  BY <1>3, <1>4, <1>5, <1>6 DEF CreateHandler

LEMMA OtherNames ==
    ASSUME NInv, NEW m \in Migration, Deadline(m) \/ Cleanup(m) \/ BindClaim(m)
    PROVE  NInv'
<1>1. Shape'
  BY Zenon, RequestShape DEF NInv
<1>2. /\ dep.node = NodeOf(dep.claim) /\ (dep.claim \in Migration => row[dep.claim].status # "absent")
      /\ \A n \in Migration : row[n].status = "absent" => pvc[n] = "absent" /\ cleaner[n] = "idle"
  BY Zenon DEF NInv, Named, DeploymentOnVolumeNode
<1>3. exec[m] \in ExecShape /\ row[m] \in RowShape /\ row[m].src \in Claim /\ Shape
  BY Zenon DEF NInv, Shape, RowShape
<1>4. CASE Deadline(m) \/ CleanupCheck(m) \/ CleanupDelete(m) \/ BindClaim(m)
  <2>1. UNCHANGED <<row, dep>>
    BY Zenon, <1>4 DEF Deadline, CleanupCheck, CleanupDelete, BindClaim, cluster
  <2>2. \A n \in Migration : exec'[n].pc = exec[n].pc
    BY <1>3, <1>4 DEF Deadline, CleanupCheck, CleanupDelete, BindClaim, Shape, ExecShape
  <2>3. \A n \in Migration : pvc[n] = "absent" => pvc'[n] = "absent"
    BY Zenon, <1>3, <1>4 DEF Deadline, CleanupCheck, CleanupDelete, BindClaim, Delete, Shape, Claim, cluster
  <2>4. \A n \in Migration : row[n].status = "absent" => cleaner'[n] = "idle"
    BY <1>2, <1>3, <1>4 DEF Deadline, CleanupCheck, CleanupDelete, BindClaim, Shape, requests
  <2> QED
    BY <1>1, <1>2, <2>1, <2>2, <2>3, <2>4, NamesKept
<1>5. CASE CleanupSave(m)
  <2>1. UNCHANGED <<exec, dep, pvc>> /\ row[m].status # "absent"
    BY <1>2, <1>5 DEF CleanupSave, cluster
  <2>2. /\ \A n \in Migration \ {m} : row'[n] = row[n] /\ cleaner'[n] = cleaner[n]
        /\ row'[m].src = row[m].src /\ row'[m].srcNode = row[m].srcNode /\ row'[m].node = row[m].node
        /\ row'[m].status # "absent"
    BY <1>3, <1>5, <2>1 DEF CleanupSave, Shape, RowShape
  <2>3. DeploymentOnVolumeNode'
    BY Zenon, <2>1, <2>2 DEF NInv, DeploymentOnVolumeNode, NodeOf, Shape, DepShape, Claim
  <2>4. ASSUME NEW n \in Migration PROVE Named(n)'
    <3>1. Named(n) /\ row[n].src \in Claim
      BY Zenon DEF NInv, Shape, RowShape
    <3>2. NodeOf(row[n].src)' = NodeOf(row[n].src)
      BY Zenon, <2>2, <3>1 DEF NodeOf, Claim
    <3>3. row'[n].status = "absent" <=> row[n].status = "absent"
      BY Zenon, <2>1, <2>2
    <3>4. row[n].src \in Migration => (row'[row[n].src].status = "absent" <=> row[row[n].src].status = "absent")
      BY Zenon, <2>1, <2>2
    <3>5. row'[n].src = row[n].src /\ row'[n].srcNode = row[n].srcNode
      BY Zenon, <2>2
    <3>6. cleaner'[n] # "idle" => row'[n].status # "absent"
      BY <2>2, <3>1 DEF Named
    <3> QED
      BY Zenon, <2>1, <3>1, <3>2, <3>3, <3>4, <3>5, <3>6 DEF Named
  <2> QED
    BY <1>1, <2>3, <2>4 DEF NInv
<1> QED
  BY <1>4, <1>5 DEF Cleanup

\* The Deployment is always scheduled on the node its volume lives on, through
\* switch-over and switch-back (ReplaceDeploymentPVCNode), whatever migrations,
\* releases, deletions, failures and restarts overlap.
THEOREM OnVolumeNode == Spec => []DeploymentOnVolumeNode
<1>1. Init => NInv
  <2> SUFFICES ASSUME Init PROVE NInv
    OBVIOUS
  <2>1. /\ dep.claim = Origin /\ dep.node = Home /\ Origin \notin Migration
        /\ \A n \in Migration : row[n].status = "absent" /\ exec[n].pc = "idle" /\ cleaner[n] = "idle" /\ pvc[n] = "absent"
    BY ConstantsAssumption DEF Init, Claim
  <2> QED
    BY <2>1, InitShape DEF NInv, Named, DeploymentOnVolumeNode, NodeOf, Busy
<1>2. NInv /\ [Next]_vars => NInv'
  <2> SUFFICES ASSUME NInv, [Next]_vars PROVE NInv'
    OBVIOUS
  <2>1. /\ dep.node = NodeOf(dep.claim) /\ (dep.claim \in Migration => row[dep.claim].status # "absent")
        /\ \A n \in Migration : row[n].status = "absent" => pvc[n] = "absent" /\ cleaner[n] = "idle"
    BY DEF NInv, Named, DeploymentOnVolumeNode
  <2>2. Shape
    BY Zenon DEF NInv
  <2>3. CASE UNCHANGED vars
    <3>1. Shape' /\ UNCHANGED <<row, exec, dep, pvc, cleaner>>
      BY <2>2, <2>3 DEF vars, Shape
    <3> QED
      BY Zenon, <2>1, <3>1, NamesKept
  <2>4. ASSUME NEW m \in Migration, CreateHandler(m) \/ Goroutine(m) \/ Deadline(m) \/ Cleanup(m) \/ BindClaim(m) PROVE NInv'
    BY Zenon, <2>4, CreateNames, GoroutineNames, OtherNames
  <2>5. ASSUME NEW c \in Claim, DeleteCheck(c) \/ DeleteClaim(c) \/ ReclaimClaim(c) \/ StopPod(c) \/ Write(c) PROVE NInv'
    <3>1. UNCHANGED <<row, exec, dep, cleaner>>
      BY Zenon, <2>5 DEF DeleteCheck, DeleteClaim, ReclaimClaim, StopPod, Write, cluster, requests
    <3>2. \A n \in Migration : pvc[n] = "absent" => pvc'[n] = "absent"
      BY Zenon, <2>2, <2>5 DEF DeleteCheck, DeleteClaim, ReclaimClaim, StopPod, Write, Delete, Shape, Claim, cluster
    <3>3. Shape'
      BY <2>2, <2>5, ClaimShape
    <3> QED
      BY <2>1, <3>1, <3>2, <3>3, NamesKept
  <2>6. ASSUME NEW t \in Template, DeployRelease(t) PROVE NInv'
    <3>1. UNCHANGED <<row, exec, pvc, cleaner>> /\ Shape'
      BY <2>2, <2>6, SystemShape DEF DeployRelease, requests
    <3>2. dep'.claim = tpl[t].claim /\ dep'.node = NodeOf(tpl[t].claim) /\ pvc[tpl[t].claim] # "absent"
      BY Zenon, <2>6 DEF DeployRelease
    <3> QED
      BY <2>1, <3>1, <3>2, NamesKept
  <2>7. CASE StartPod
    <3>1. UNCHANGED <<row, exec, dep, pvc, cleaner>> /\ Shape'
      BY Zenon, <2>2, <2>7, SystemShape DEF StartPod, requests
    <3> QED
      BY Zenon, <2>1, <3>1, NamesKept
  <2>8. CASE Crash
    <3>1. UNCHANGED <<row, dep, pvc>> /\ Shape' /\ \A n \in Migration : cleaner'[n] = "idle"
      BY <2>2, <2>8, SystemShape DEF Crash, cluster
    <3>2. ASSUME NEW n \in Migration PROVE exec'[n].pc = IF row[n].status = "absent" THEN "idle" ELSE "done"
      <4>1. exec[n] \in ExecShape
        BY <2>2 DEF Shape
      <4> QED
        BY <2>8, <4>1 DEF Crash, ExecShape
    <3> QED
      BY <2>1, <3>1, <3>2, NamesKept
  <2> QED
    BY <2>3, <2>4, <2>5, <2>6, <2>7, <2>8 DEF Next
<1>3. NInv => DeploymentOnVolumeNode
  BY DEF NInv
<1> QED
  BY <1>1, <1>2, <1>3, PTL DEF Spec

-----------------------------------------------------------------------------
(* The inductive invariant of migrations that do not overlap.              *)

\* Up to the call that stops the workload.
Before == {"insert", "name_target", "start", "preflight", "save_provisioning", "create_claim", "binding_pod", "wait_bound",
           "check_path", "save_stopping", "scale_down"}
\* The workload is stopped and still uses the source.
Emptied == {"save_copying", "copy_begin", "copy_end", "save_cutover", "delete_holder", "replace_claim"}
\* The workload uses the target.
Switched == {"replace_templates", "scale_up", "save_waiting", "wait_ready", "save_cleanup"}
Succeeded == {"cleanup_pending", "cleaned"}
Unfinished == Status \ (Terminal \union {"absent"})

\* The source of m is out of use for good, and the target has its contents.
Settled(m) == row[m].src \notin pods /\ dep.claim # row[m].src /\ vol[row[m].src] \subseteq vol[m]

\* The record of m: a claim exists only for a record, and a source was a claim
\* before its migration was.
Recorded(m) ==
    /\ exec[m].pc \in {"idle", "read_source", "insert"} => row[m].status = "absent"
    /\ exec[m].pc \in Busy \ {"insert"} => row[m].status \in Unfinished \ {"cleanup_pending"}
    /\ row[m].status = "absent" => pvc[m] = "absent" /\ dep.claim # m /\ m \notin pods
    /\ row[m].status # "absent" \/ exec[m].pc = "insert" =>
         row[m].src # m /\ (row[m].src \in Migration => row[row[m].src].status # "absent")
    /\ cleaner[m] # "idle" => row[m].status \in Succeeded

\* The workload and the templates are as they were when m was created; a call
\* that took effect although its reply was lost may have stopped the workload.
Reverted(m) ==
    /\ dep.claim = row[m].src /\ tpl = row[m].snapshot
    /\ "lost" \notin Faults => dep.replicas = row[m].replicas

\* The other records at the time m is under way.
Others(m) ==
    \A n \in Migration \ {m} :
        /\ exec[m].pc \in Busy /\ row[n].status # "absent" => row[n].src # m
        /\ exec[m].pc \in Busy /\ row[n].status \in Succeeded => row[n].src # row[m].src
        /\ exec[m].pc \in {"read_source", "insert"} /\ row[n].status \in Unfinished => row[n].src # row[m].src

\* What the goroutine of m relies on at each of its places.
Place(m) ==
    LET k == exec[m]
        r == row[m]
    IN  /\ k.pc \in Busy => dep.claim \in {r.src, m} /\ (r.src \in Migration => Settled(r.src))
        /\ k.pc \in Before => Reverted(m) /\ dep.replicas = r.replicas
        /\ k.pc = "wait_stopped" \/ k.pc \in Emptied => dep.claim = r.src /\ dep.replicas = 0 /\ tpl = r.snapshot
        /\ k.pc \in Emptied => pods = {}
        /\ k.pc = "copy_end" => k.data = vol[r.src]
        /\ k.pc \in {"save_cutover", "delete_holder", "replace_claim"} => vol[r.src] \subseteq vol[m]
        /\ k.pc \in Switched => dep.claim = m /\ dep.node = r.node
        /\ k.pc = "replace_templates" => tpl = r.snapshot
        /\ k.pc \in Switched \ {"replace_templates"} =>
             \A t \in Template : r.snapshot[t].claim = r.src => tpl[t] = [claim |-> m, node |-> r.node]
        /\ k.pc \in {"save_waiting", "wait_ready", "save_cleanup"} => dep.replicas = r.replicas
        /\ k.pc \in {"drop_holder", "drop_claim"} => k.undo \in {"record", "restore"}
        /\ k.pc \in {"drop_holder", "drop_claim"} /\ k.undo = "record" => Reverted(m)
        /\ k.pc = "restore_claim" => k.undo = "restore"
        /\ k.pc \in {"restore_replicas", "restore_templates", "save_failed"} /\ k.undo # "broken" => dep.claim = r.src
        /\ k.pc = "restore_templates" /\ k.undo # "broken" => dep.replicas = r.replicas
        /\ k.pc = "save_failed" /\ k.undo # "broken" => Reverted(m)

\* Unfinished migrations have different sources.
Single == \A m, n \in Migration : row[m].status \in Unfinished /\ row[n].status \in Unfinished /\ row[m].src = row[n].src => m = n

IInv ==
    /\ Shape /\ Single
    /\ \A m \in Migration : /\ Recorded(m) /\ Others(m) /\ Place(m)
                            /\ dep.claim = m \/ row[m].status \in Succeeded => Settled(m)

-----------------------------------------------------------------------------
(* What every step of a goroutine has in common.                           *)

\* While one migration is worked on, the others rest.
LEMMA RestingOthers ==
    ASSUME OneAtATime, NEW m \in Migration, exec[m].pc \notin {"idle", "done"}, NEW n \in Migration, n # m
    PROVE  exec[n].pc \in {"idle", "done"}
BY DEF OneAtATime

\* A migration that is under way has a record.
LEMMA BusyFacts ==
    ASSUME IInv, NEW m \in Migration, exec[m].pc \in Busy \ {"insert"}
    PROVE  /\ row[m].status \in Unfinished \ {"cleanup_pending"} /\ row[m].status # "absent" /\ row[m].status \notin Succeeded
           /\ row[m].src # m /\ row[m].src \in Claim
           /\ row[m].src \in Migration => row[row[m].src].status # "absent"
           /\ dep.claim \in {row[m].src, m}
           /\ row[m].src \in Migration => Settled(row[m].src)
<1>1. row[m].src \in Claim
  BY DEF IInv, Shape, RowShape
<1>2. Recorded(m) /\ Place(m)
  BY Zenon DEF IInv
<1> QED
  BY Zenon, <1>1, <1>2 DEF Recorded, Place, Unfinished, Terminal, Succeeded

\* A migration at rest relies on nothing.
LEMMA PlacesAtRest ==
    ASSUME NEW m \in Migration, Place(m)', \A n \in Migration \ {m} : exec'[n].pc \in {"idle", "done"}
    PROVE  \A n \in Migration : Place(n)'
<1>1. ASSUME NEW n \in Migration, n # m PROVE Place(n)'
  <2>1. exec'[n].pc \notin Busy \union Before \union Emptied \union Switched
    BY <1>1 DEF Busy, Before, Emptied, Switched
  <2> QED
    BY ZenonT(40), <1>1, <2>1 DEF Place
<1> QED
  BY Zenon, <1>1

\* What a goroutine relies on stays when its record, the workload, the templates
\* and the volumes do, and no pod starts while it counts on there being none.
LEMMA PlaceKept ==
    ASSUME NEW n \in Migration, Place(n), UNCHANGED <<dep, tpl, vol>>,
           exec'[n].pc = exec[n].pc, exec'[n].undo = exec[n].undo, exec'[n].data = exec[n].data,
           row'[n].src = row[n].src, row'[n].node = row[n].node,
           row'[n].replicas = row[n].replicas, row'[n].snapshot = row[n].snapshot,
           row[n].src \in Migration /\ Settled(row[n].src) => Settled(row[n].src)',
           exec[n].pc \in Emptied /\ pods = {} => pods' = {}
    PROVE  Place(n)'
<1>1. Reverted(n)' <=> Reverted(n)
  BY Zenon DEF Reverted
<1>2. /\ (exec[n].pc \in Busy => dep.claim \in {row[n].src, n} /\ (row[n].src \in Migration => Settled(row[n].src)))'
      /\ (exec[n].pc \in Emptied => pods = {})'
  BY Zenon DEF Place
<1> QED
  BY Zenon, <1>1, <1>2 DEF Place

\* A step that changes neither records nor volumes nor the Deployment's claim.
LEMMA Local ==
    ASSUME IInv, OneAtATime, NEW m \in Migration, exec[m].pc \in Busy \ {"insert"},
           NEW k \in ExecShape, k.pc \in (Busy \ {"insert"}) \union {"done"},
           exec' = [exec EXCEPT ![m] = k],
           UNCHANGED <<row, cleaner, pods, vol>>, dep'.claim = dep.claim,
           \A n \in Migration \ {m} : pvc'[n] = pvc[n],
           Place(m)', Shape'
    PROVE  IInv'
<1>1. exec'[m] = k /\ \A n \in Migration \ {m} : exec'[n] = exec[n]
  BY DEF IInv, Shape
<1>2. \A n \in Migration \ {m} : exec'[n].pc \in {"idle", "done"}
  BY Zenon, <1>1, RestingOthers DEF Busy
<1>3. \A n \in Migration : Place(n)'
  BY Zenon, <1>2, PlacesAtRest
<1>4. \A n \in Migration : Others(n)'
  <2>1. Others(m)'
    <3>1. Others(m)
      BY Zenon DEF IInv
    <3>2. exec'[m].pc \notin {"read_source", "insert"}
      BY <1>1 DEF Busy
    <3> QED
      BY Zenon, <1>1, <3>1, <3>2 DEF Others
  <2> QED
    BY Zenon, <1>2, <2>1 DEF Others, Busy
<1>5. \A n \in Migration : Recorded(n)'
  <2>1. Recorded(m)'
    <3>1. row[m].status \in Unfinished \ {"cleanup_pending"} /\ row[m].status # "absent" /\ Recorded(m)
      BY Zenon, BusyFacts DEF IInv
    <3> QED
      BY Zenon, <1>1, <3>1 DEF Recorded, Busy
  <2>2. ASSUME NEW n \in Migration, n # m PROVE Recorded(n)'
    <3>1. Recorded(n)
      BY Zenon DEF IInv
    <3> QED
      BY <1>1, <2>2, <3>1 DEF Recorded
  <2> QED
    BY <2>1, <2>2
<1>6. \A n \in Migration : (dep.claim = n \/ row[n].status \in Succeeded => Settled(n))'
  BY Zenon DEF IInv, Settled
<1> QED
  BY Zenon, <1>3, <1>4, <1>5, <1>6 DEF IInv, Single

\* Where a failing call or wait may occur.
Fallible == {"start", "preflight", "create_claim"} \union DropsTarget \union RestoresSource

\* A failing step finds the workload as it was, or goes on to restore it.
LEMMA FailPlace ==
    ASSUME IInv, NEW m \in Migration, exec[m].pc \in Fallible, Failing(m),
           UNCHANGED row, dep'.claim \in {row[m].src, m}, row[m].src \in Migration => Settled(row[m].src)',
           exec[m].pc \in Before => Reverted(m)'
    PROVE  /\ Place(m)'
           /\ \E k \in ExecShape : /\ exec' = [exec EXCEPT ![m] = k]
                                   /\ k.pc \in Busy \ {"insert"}
<1> DEFINE pc == IF exec[m].pc \in DropsTarget THEN "drop_holder"
                 ELSE IF exec[m].pc \in RestoresSource THEN "restore_claim" ELSE "save_failed"
           undo == IF exec[m].pc \in RestoresSource THEN "restore" ELSE "record"
           k == [exec[m] EXCEPT !.pc = pc, !.undo = undo]
<1>1. exec[m] \in ExecShape
  BY Zenon DEF IInv, Shape
<1>2. exec' = [exec EXCEPT ![m] = k]
  BY Zenon DEF Failing, Undo
<1>3. k \in ExecShape /\ k.pc = pc /\ k.undo = undo
  BY Zenon, <1>1 DEF ExecShape, ExecPc
<1>4. exec'[m] = k
  BY <1>2 DEF IInv, Shape
<1>5. pc \in {"drop_holder", "restore_claim", "save_failed"} /\ undo \in {"record", "restore"}
  OBVIOUS
<1>6. /\ pc = "save_failed" => exec[m].pc \in Before /\ undo = "record"
      /\ pc = "restore_claim" => undo = "restore"
      /\ pc = "drop_holder" /\ undo = "record" => exec[m].pc \in Before
  BY Zenon DEF Fallible, DropsTarget, RestoresSource, Before
<1>7. pc \in Busy \ {"insert"}
  BY <1>5 DEF Busy, ExecPc
<1> HIDE DEF pc, undo, k
<1>8. Place(m)'
  <2>1. exec'[m].pc \in {"drop_holder", "restore_claim", "save_failed"} /\ exec'[m].undo \in {"record", "restore"}
    BY Zenon, <1>3, <1>4, <1>5
  <2>2. exec'[m].pc = "save_failed" \/ (exec'[m].pc = "drop_holder" /\ exec'[m].undo = "record") => Reverted(m)'
    BY Zenon, <1>3, <1>4, <1>6
  <2>3. exec'[m].pc = "restore_claim" => exec'[m].undo = "restore"
    BY <1>3, <1>4, <1>6
  <2> QED
    BY Zenon, <2>1, <2>2, <2>3 DEF Place, Before, Emptied, Switched, Reverted
<1> QED
  BY Zenon, <1>2, <1>3, <1>7, <1>8

\* A step that goes on, or fails and starts to undo.
LEMMA LocalContinue ==
    ASSUME IInv, OneAtATime, NEW m \in Migration, exec[m].pc \in Fallible,
           NEW r, NEW pc \in Busy \ {"insert"}, Continue(m, r, pc),
           UNCHANGED <<row, cleaner, pods, vol>>, dep'.claim = dep.claim,
           \A n \in Migration \ {m} : pvc'[n] = pvc[n], Shape',
           exec' = [exec EXCEPT ![m].pc = pc] /\ r = "ok" => Place(m)',
           exec[m].pc \in Before /\ r # "ok" => Reverted(m)'
    PROVE  IInv'
<1>1. exec[m].pc \in Busy \ {"insert"}
  BY Zenon DEF Fallible, Busy, ExecPc, DropsTarget, RestoresSource, Handler
<1>2. dep.claim \in {row[m].src, m} /\ (row[m].src \in Migration => Settled(row[m].src)')
  BY <1>1, BusyFacts DEF Settled
<1>3. CASE r = "ok"
  <2> DEFINE k == [exec[m] EXCEPT !.pc = pc]
  <2>1. exec[m] \in ExecShape /\ pc \in ExecPc
    BY DEF IInv, Shape, Busy
  <2>2. k \in ExecShape /\ k.pc = pc
    BY <2>1 DEF ExecShape
  <2>3. exec' = [exec EXCEPT ![m] = k] /\ exec' = [exec EXCEPT ![m].pc = pc]
    BY <1>3 DEF Continue, Goto
  <2>4. Place(m)'
    BY <1>3, <2>3
  <2> HIDE DEF k
  <2> QED
    BY Zenon, <1>1, <2>2, <2>3, <2>4, Local
<1>4. CASE r # "ok"
  <2>1. Failing(m)
    BY <1>4 DEF Continue
  <2>2. exec[m].pc \in Before => Reverted(m)'
    BY <1>4
  <2>3. Place(m)' /\ \E k \in ExecShape : exec' = [exec EXCEPT ![m] = k] /\ k.pc \in Busy \ {"insert"}
    BY <1>2, <2>1, <2>2, FailPlace
  <2> QED
    BY Zenon, <1>1, <2>3, Local
<1> QED
  BY <1>3, <1>4

\* What a goroutine that goes on takes along.
LEMMA Onward ==
    ASSUME IInv, NEW m \in Migration, NEW pc, exec' = [exec EXCEPT ![m].pc = pc]
    PROVE  /\ exec'[m].pc = pc /\ exec'[m].undo = exec[m].undo /\ exec'[m].data = exec[m].data
           /\ Place(m)
<1>1. exec[m] \in ExecShape
  BY Zenon DEF IInv, Shape
<1> QED
  BY <1>1 DEF IInv, Shape, ExecShape

\* The places are different from each other.
LEMMA Places ==
    /\ Before \intersect (Emptied \union Switched \union {"wait_stopped"}) = {}
    /\ Emptied \intersect Switched = {}
    /\ Fallible \subseteq Busy \ {"insert"}
    /\ {"save_provisioning", "binding_pod", "wait_bound", "check_path", "save_stopping", "wait_stopped", "save_copying",
        "copy_end", "save_cutover", "replace_claim", "scale_up", "save_waiting", "save_cleanup"} \subseteq Busy \ {"insert"}
    /\ {"drop_holder", "drop_claim", "restore_claim", "restore_replicas", "restore_templates", "save_failed", "start",
        "name_target", "scale_down", "copy_begin", "delete_holder", "wait_ready", "preflight", "create_claim",
        "replace_templates"} \subseteq Busy \ {"insert"}
BY DEF Before, Emptied, Switched, Fallible, Busy, ExecPc, DropsTarget, RestoresSource, Handler

-----------------------------------------------------------------------------
(* The steps of the goroutine up to the switch.                            *)

LEMMA WaitingSteps ==
    ASSUME IInv, OneAtATime, NEW m \in Migration,
           Preflight(m) \/ WaitBound(m) \/ CheckTargetPath(m) \/ WaitStopped(m)
    PROVE  IInv'
<1>1. Shape'
  BY GoroutineShape DEF Goroutine, IInv
<1>2. UNCHANGED <<row, cleaner, pods, vol, dep, pvc, tpl>>
  BY DEF Preflight, WaitBound, CheckTargetPath, WaitStopped, cluster, requests
<1>3. Place(m)
  BY Zenon DEF IInv
<1>4. exec[m].pc \in Before => Reverted(m)'
  BY <1>2, <1>3 DEF Place, Reverted
<1>5. PICK r : \/ At(m, "preflight") /\ Continue(m, r, "save_provisioning")
               \/ At(m, "wait_bound") /\ Continue(m, r, "check_path")
               \/ At(m, "check_path") /\ Continue(m, r, "save_stopping")
               \/ At(m, "wait_stopped") /\ Continue(m, r, "save_copying") /\ (r = "ok" => pods = {})
  BY DEF Preflight, WaitBound, CheckTargetPath, WaitStopped
<1>6. PICK pc \in {"save_provisioning", "check_path", "save_stopping", "save_copying"} :
          /\ Continue(m, r, pc)
          /\ exec[m].pc \in {"preflight", "wait_bound", "check_path", "wait_stopped"}
          /\ pc # "save_copying" => exec[m].pc \in {"preflight", "wait_bound", "check_path"}
          /\ pc = "save_copying" => exec[m].pc = "wait_stopped" /\ (r = "ok" => pods = {})
  BY <1>5 DEF At
<1>7. exec' = [exec EXCEPT ![m].pc = pc] /\ r = "ok" => Place(m)'
  <2> SUFFICES ASSUME exec' = [exec EXCEPT ![m].pc = pc], r = "ok" PROVE Place(m)'
    OBVIOUS
  <2>1. exec'[m].pc = pc /\ exec'[m].undo = exec[m].undo /\ exec'[m].data = exec[m].data
    BY Zenon, Onward
  <2>2. CASE pc = "save_copying"
    BY ZenonT(40), <1>2, <1>3, <1>6, <2>1, <2>2 DEF Place, Before, Emptied, Switched, Busy, ExecPc, RestoresSource, Settled
  <2>3. CASE pc # "save_copying"
    BY <1>2, <1>3, <1>6, <2>1, <2>3 DEF Place, Before, Emptied, Switched, Busy, ExecPc, DropsTarget, RestoresSource, Settled, Reverted
  <2> QED
    BY <2>2, <2>3
<1>8. exec[m].pc \in Fallible /\ pc \in Busy \ {"insert"}
  BY <1>6, Places DEF Fallible, DropsTarget, RestoresSource
<1> QED
  BY <1>1, <1>2, <1>4, <1>6, <1>7, <1>8, LocalContinue

LEMMA ResourceSteps ==
    ASSUME IInv, OneAtATime, NEW m \in Migration,
           CreateTarget(m) \/ CreateBindingPod(m) \/ DeleteBindingPod(m)
    PROVE  IInv'
<1>1. Shape'
  BY GoroutineShape DEF Goroutine, IInv
<1>2. UNCHANGED <<row, cleaner, pods, vol, dep, tpl>>
  BY Zenon DEF CreateTarget, CreateBindingPod, DeleteBindingPod, requests
<1>3. \A n \in Migration \ {m} : pvc'[n] = pvc[n]
  BY DEF CreateTarget, CreateBindingPod, DeleteBindingPod, IInv, Shape, Claim
<1>4. Place(m)
  BY Zenon DEF IInv
<1>5. exec[m].pc \in Before => Reverted(m)'
  BY Zenon, <1>2, <1>4 DEF Place, Reverted
<1>6. PICK r \in {"ok", "refused", "lost"}, pc \in {"binding_pod", "wait_bound", "replace_claim"} :
          /\ Continue(m, r, pc)
          /\ exec[m].pc \in {"create_claim", "binding_pod", "delete_holder"}
          /\ pc # "replace_claim" => exec[m].pc \in {"create_claim", "binding_pod"}
          /\ pc = "replace_claim" => exec[m].pc = "delete_holder"
  BY Replies DEF CreateTarget, CreateBindingPod, DeleteBindingPod, At
<1>7. exec' = [exec EXCEPT ![m].pc = pc] /\ r = "ok" => Place(m)'
  <2> SUFFICES ASSUME exec' = [exec EXCEPT ![m].pc = pc], r = "ok" PROVE Place(m)'
    OBVIOUS
  <2>1. exec'[m].pc = pc /\ exec'[m].undo = exec[m].undo /\ exec'[m].data = exec[m].data
    BY Zenon, Onward
  <2>2. CASE pc = "replace_claim"
    BY ZenonT(40), <1>2, <1>4, <1>6, <2>1, <2>2 DEF Place, Before, Emptied, Switched, Busy, ExecPc, RestoresSource, Settled
  <2>3. CASE pc # "replace_claim"
    BY <1>2, <1>4, <1>6, <2>1, <2>3 DEF Place, Before, Emptied, Switched, Busy, ExecPc, DropsTarget, RestoresSource, Settled, Reverted
  <2> QED
    BY <2>2, <2>3
<1>8. exec[m].pc \in Fallible /\ pc \in Busy \ {"insert"}
  BY <1>6, Places DEF Fallible, DropsTarget, RestoresSource
<1> QED
  BY Zenon, <1>1, <1>2, <1>3, <1>5, <1>6, <1>7, <1>8, LocalContinue

LEMMA ScaleSteps ==
    ASSUME IInv, OneAtATime, NEW m \in Migration, ScaleDown(m) \/ ScaleUp(m)
    PROVE  IInv'
<1>1. Shape'
  BY GoroutineShape DEF Goroutine, IInv
<1>2. UNCHANGED <<row, cleaner, pods, vol, pvc, tpl>>
  BY DEF ScaleDown, ScaleUp, requests
<1>3. Place(m) /\ dep \in DepShape
  BY DEF IInv, Shape
<1>4. PICK r : \/ /\ At(m, "scale_down") /\ r \in Reply(m) /\ Continue(m, r, "wait_stopped")
                  /\ dep' = IF Applied(r) THEN [dep EXCEPT !.replicas = 0] ELSE dep
               \/ /\ At(m, "scale_up") /\ r \in Reply(m) /\ Continue(m, r, "save_waiting")
                  /\ dep' = IF Applied(r) THEN [dep EXCEPT !.replicas = row[m].replicas] ELSE dep
  BY DEF ScaleDown, ScaleUp
<1>5. dep'.claim = dep.claim /\ dep'.node = dep.node
  BY <1>3, <1>4 DEF DepShape
<1>6. CASE At(m, "scale_down")
  <2>1. Continue(m, r, "wait_stopped") /\ exec[m].pc = "scale_down"
    BY <1>4, <1>6 DEF At
  <2>2. r = "ok" => dep'.replicas = 0
    BY <1>3, <1>4, <1>6 DEF At, Applied, DepShape
  <2>3. r # "ok" => Reverted(m)'
    <3>1. Reverted(m) /\ dep.replicas = row[m].replicas
      BY <1>3, <2>1 DEF Place, Before
    <3>2. r = "lost" => "lost" \in Faults
      BY <1>4 DEF Reply
    <3>3. r \notin {"ok", "lost"} => dep' = dep
      BY ZenonT(40), <1>4, <1>6 DEF At, Applied
    <3> QED
      BY Zenon, <1>2, <1>5, <3>1, <3>2, <3>3 DEF Reverted
  <2>4. exec' = [exec EXCEPT ![m].pc = "wait_stopped"] /\ r = "ok" => Place(m)'
    <3> SUFFICES ASSUME exec' = [exec EXCEPT ![m].pc = "wait_stopped"], r = "ok" PROVE Place(m)'
      OBVIOUS
    <3>1. exec'[m].pc = "wait_stopped"
      BY Zenon, Onward
    <3>2. Reverted(m) /\ (row[m].src \in Migration => Settled(row[m].src))
      BY Zenon, <1>3, <2>1 DEF Place, Before, Busy, ExecPc, DropsTarget, Handler
    <3> QED
      BY <1>2, <1>5, <2>2, <3>1, <3>2 DEF Place, Before, Emptied, Switched, Settled, Reverted
  <2>5. exec[m].pc \in Fallible /\ "wait_stopped" \in Busy \ {"insert"}
    BY <2>1, Places DEF Fallible, DropsTarget
  <2> QED
    BY <1>1, <1>2, <1>5, <2>1, <2>3, <2>4, <2>5, LocalContinue
<1>7. CASE At(m, "scale_up")
  <2>1. Continue(m, r, "save_waiting") /\ exec[m].pc = "scale_up"
    BY <1>4, <1>7 DEF At
  <2>2. r = "ok" => dep'.replicas = row[m].replicas
    BY ZenonT(40), <1>3, <1>4, <1>7 DEF At, Applied, DepShape
  <2>3. exec' = [exec EXCEPT ![m].pc = "save_waiting"] /\ r = "ok" => Place(m)'
    <3> SUFFICES ASSUME exec' = [exec EXCEPT ![m].pc = "save_waiting"], r = "ok" PROVE Place(m)'
      OBVIOUS
    <3>1. exec'[m].pc = "save_waiting"
      BY Zenon, Onward
    <3>2. /\ dep.claim = m /\ dep.node = row[m].node /\ (row[m].src \in Migration => Settled(row[m].src))
          /\ \A t \in Template : row[m].snapshot[t].claim = row[m].src => tpl[t] = [claim |-> m, node |-> row[m].node]
      BY <1>3, <2>1 DEF Place, Switched, Busy, ExecPc, RestoresSource, Handler
    <3> QED
      BY <1>2, <1>5, <2>2, <3>1, <3>2 DEF Place, Before, Emptied, Switched, Settled
  <2>4. exec[m].pc \in Fallible \ Before /\ "save_waiting" \in Busy \ {"insert"}
    BY <2>1, Places DEF Fallible, RestoresSource, Before
  <2> QED
    BY <1>1, <1>2, <1>5, <2>1, <2>3, <2>4, LocalContinue
<1> QED
  BY Zenon, <1>4, <1>6, <1>7

LEMMA FallingSteps ==
    ASSUME IInv, OneAtATime, NEW m \in Migration, EnvironmentMissing(m) \/ WaitReady(m)
    PROVE  IInv'
<1>1. Shape'
  BY Zenon, GoroutineShape DEF Goroutine, IInv
<1>2. UNCHANGED <<row, cleaner, pods, vol, dep, pvc, tpl>>
  BY DEF EnvironmentMissing, WaitReady, cluster, requests
<1>3. Place(m)
  BY Zenon DEF IInv
<1>4. exec[m].pc \in Before => Reverted(m)'
  BY <1>2, <1>3 DEF Place, Reverted
<1>5. PICK r : Continue(m, r, "save_cleanup") /\ exec[m].pc \in {"start", "wait_ready"} /\ (r = "ok" => exec[m].pc = "wait_ready")
  <2>1. CASE Failing(m)
    <3>1. Continue(m, "refused", "save_cleanup") /\ exec[m].pc \in {"start", "wait_ready"}
      BY <2>1 DEF EnvironmentMissing, WaitReady, At, Continue
    <3> QED
      BY <3>1
  <2>2. CASE ~Failing(m)
    <3>1. Continue(m, "ok", "save_cleanup") /\ exec[m].pc = "wait_ready"
      BY ZenonT(40), <2>2 DEF EnvironmentMissing, WaitReady, At, Continue
    <3> QED
      BY <3>1
  <2> QED
    BY <2>1, <2>2
<1>6. exec' = [exec EXCEPT ![m].pc = "save_cleanup"] /\ r = "ok" => Place(m)'
  <2> SUFFICES ASSUME exec' = [exec EXCEPT ![m].pc = "save_cleanup"], r = "ok" PROVE Place(m)'
    OBVIOUS
  <2>1. exec'[m].pc = "save_cleanup"
    BY Zenon, Onward
  <2> QED
    BY <1>2, <1>3, <1>5, <2>1 DEF Place, Before, Emptied, Switched, Busy, ExecPc, RestoresSource, Settled
<1>7. exec[m].pc \in Fallible /\ "save_cleanup" \in Busy \ {"insert"}
  BY <1>5, Places DEF Fallible, RestoresSource
<1> QED
  BY Zenon, <1>1, <1>2, <1>4, <1>5, <1>6, <1>7, LocalContinue

LEMMA TemplateSteps ==
    ASSUME IInv, OneAtATime, NEW m \in Migration, ReplaceTemplates(m)
    PROVE  IInv'
<1>1. Shape'
  BY Zenon, GoroutineShape DEF Goroutine, IInv
<1>2. UNCHANGED <<row, cleaner, pods, vol, dep, pvc>> /\ exec[m].pc = "replace_templates"
  BY DEF ReplaceTemplates, cluster, requests, At
<1>3. Place(m)
  BY DEF IInv
<1>4. PICK r : Continue(m, r, "scale_up") /\ (r = "ok" => tpl' = Moved(m, Template))
  BY ZenonT(40) DEF ReplaceTemplates
<1>5. exec' = [exec EXCEPT ![m].pc = "scale_up"] /\ r = "ok" => Place(m)'
  <2> SUFFICES ASSUME exec' = [exec EXCEPT ![m].pc = "scale_up"], r = "ok" PROVE Place(m)'
    OBVIOUS
  <2>1. exec'[m].pc = "scale_up"
    BY Zenon, Onward
  <2>2. /\ tpl = row[m].snapshot /\ dep.claim = m /\ dep.node = row[m].node
        /\ row[m].src \in Migration => Settled(row[m].src)
    BY <1>2, <1>3 DEF Place, Switched, Busy, ExecPc, RestoresSource, Handler
  <2>3. \A t \in Template : row[m].snapshot[t].claim = row[m].src => tpl'[t] = [claim |-> m, node |-> row[m].node]
    BY Zenon, <1>4, <2>2 DEF Moved
  <2> QED
    BY <1>2, <2>1, <2>2, <2>3 DEF Place, Before, Emptied, Switched, Settled
<1>6. exec[m].pc \in Fallible \ Before /\ "scale_up" \in Busy \ {"insert"}
  BY <1>2, Places DEF Fallible, RestoresSource, Before
<1> QED
  BY Zenon, <1>1, <1>2, <1>4, <1>5, <1>6, LocalContinue

\* The stream starts to read a source nobody writes to.
LEMMA CopyBeginStep ==
    ASSUME IInv, OneAtATime, NEW m \in Migration, CopyBegin(m)
    PROVE  IInv'
<1>1. Shape'
  BY GoroutineShape DEF Goroutine, IInv
<1>2. UNCHANGED <<row, cleaner, pods, vol, dep, pvc, tpl>> /\ exec[m].pc = "copy_begin"
  BY DEF CopyBegin, cluster, requests, At
<1>3. Place(m) /\ exec[m] \in ExecShape
  BY DEF IInv, Shape
<1>4. exec[m].pc \in Fallible \ Before /\ exec[m].pc \in Busy \ {"insert"}
  BY <1>2, Places DEF Fallible, RestoresSource, Before
<1>5. CASE Failing(m)
  <2>1. Continue(m, "refused", "copy_end")
    BY <1>5 DEF Continue
  <2>2. "copy_end" \in Busy \ {"insert"}
    BY Places
  <2> QED
    BY <1>1, <1>2, <1>4, <2>1, <2>2, LocalContinue
<1>6. CASE ~Failing(m)
  <2> DEFINE k == [exec[m] EXCEPT !.pc = "copy_end", !.data = vol[row[m].src]]
  <2>1. exec' = [exec EXCEPT ![m] = k]
    BY Zenon, <1>6 DEF CopyBegin
  <2>2. k.pc = "copy_end" /\ k.data = vol[row[m].src]
    BY <1>3 DEF ExecShape
  <2>3. exec'[m] = k
    BY <2>1 DEF IInv, Shape
  <2>4. k \in ExecShape
    BY <1>1, <2>3 DEF Shape
  <2> HIDE DEF k
  <2>5. Place(m)'
    BY Zenon, <1>2, <1>3, <2>2, <2>3 DEF Place, Before, Emptied, Switched, Busy, ExecPc, RestoresSource, Settled
  <2>6. k.pc \in Busy \ {"insert"}
    BY <2>2, Places
  <2> QED
    BY Zenon, <1>1, <1>2, <1>4, <2>1, <2>4, <2>5, <2>6, Local
<1> QED
  BY Zenon, <1>5, <1>6

-----------------------------------------------------------------------------
(* The undo path.                                                          *)

\* The binding pod and the target claim are dropped.
LEMMA DropSteps ==
    ASSUME IInv, OneAtATime, NEW m \in Migration, DropBindingPod(m) \/ DropTarget(m)
    PROVE  IInv'
<1>1. Shape'
  BY Zenon, GoroutineShape DEF Goroutine, IInv
<1>2. UNCHANGED <<row, cleaner, pods, vol, dep, tpl>> /\ exec[m].pc \in {"drop_holder", "drop_claim"}
  BY DEF DropBindingPod, DropTarget, requests, At
<1>3. \A n \in Migration \ {m} : pvc'[n] = pvc[n]
  BY DEF DropBindingPod, DropTarget, Delete, IInv, Shape, Claim
<1>4. Place(m) /\ exec[m] \in ExecShape
  BY DEF IInv, Shape
<1>5. PICK pc \in {"drop_claim", "restore_claim", "save_failed"} :
          /\ exec' = [exec EXCEPT ![m].pc = pc]
          /\ pc = "restore_claim" => exec[m].undo = "restore"
          /\ pc = "save_failed" => exec[m].undo # "restore"
  BY DEF DropBindingPod, DropTarget, Goto
<1> DEFINE k == [exec[m] EXCEPT !.pc = pc]
<1>6. exec' = [exec EXCEPT ![m] = k]
  BY <1>5
<1>7. exec'[m] = k /\ k.pc = pc /\ k.undo = exec[m].undo
  BY <1>4, <1>6 DEF IInv, Shape, ExecShape
<1>8. k \in ExecShape
  BY <1>1, <1>7 DEF Shape
<1> HIDE DEF k
<1>9. exec[m].undo \in {"record", "restore"} /\ (exec[m].undo = "record" => Reverted(m))
  BY Zenon, <1>2, <1>4 DEF Place
<1>10. dep.claim \in {row[m].src, m} /\ (row[m].src \in Migration => Settled(row[m].src))
  BY Zenon, <1>2, <1>4 DEF Place, Busy, ExecPc, Handler
<1>11. Place(m)'
  BY Zenon, <1>2, <1>5, <1>7, <1>9, <1>10 DEF Place, Before, Emptied, Switched, Reverted, Settled
<1>12. exec[m].pc \in Busy \ {"insert"} /\ k.pc \in Busy \ {"insert"}
  BY <1>2, <1>7, Places
<1> QED
  BY Zenon, <1>1, <1>2, <1>3, <1>6, <1>8, <1>11, <1>12, Local

\* Replicas and templates are put back.
LEMMA RestoringSteps ==
    ASSUME IInv, OneAtATime, NEW m \in Migration, SkipRestore(m) \/ RestoreReplicas(m) \/ RestoreTemplates(m)
    PROVE  IInv'
<1>1. Shape'
  BY Zenon, GoroutineShape DEF Goroutine, IInv
<1>2. /\ UNCHANGED <<row, cleaner, pods, vol, pvc>>
      /\ exec[m].pc \in {"restore_claim", "restore_replicas", "restore_templates"}
  BY DEF SkipRestore, RestoreReplicas, RestoreTemplates, cluster, requests, At
<1>3. Place(m) /\ exec[m] \in ExecShape /\ dep \in DepShape
  BY DEF IInv, Shape
<1>4. dep'.claim = dep.claim
  BY ZenonT(40), <1>3 DEF SkipRestore, RestoreReplicas, RestoreTemplates, cluster, DepShape
<1>5. dep.claim \in {row[m].src, m} /\ (row[m].src \in Migration => Settled(row[m].src))
  BY <1>2, <1>3 DEF Place, Busy, ExecPc, Handler
<1>6. row[m].snapshot \in [Template -> Placement]
  BY Zenon, ClusterValues DEF IInv
<1>7. PICK r \in {"ok", "refused", "lost"}, pc \in {"restore_templates", "save_failed"} :
          /\ Restoring(m, r, pc)
          /\ pc = "restore_templates" => /\ exec[m].pc = "restore_replicas"
                                         /\ Applied(r) => dep' = [dep EXCEPT !.replicas = row[m].replicas]
          /\ pc = "save_failed" /\ Applied(r) =>
               exec[m].pc = "restore_templates" /\ UNCHANGED dep /\ tpl' = [t \in Template |-> row[m].snapshot[t]]
  <2>1. CASE SkipRestore(m)
    <3>1. Restoring(m, "refused", "save_failed") /\ ~Applied("refused")
      BY <2>1 DEF SkipRestore, Applied
    <3> QED
      BY <3>1
  <2>2. CASE RestoreReplicas(m)
    BY <2>2, Replies DEF RestoreReplicas, At
  <2>3. CASE RestoreTemplates(m)
    <3>1. PICK r \in {"ok", "refused"} :
            /\ Restoring(m, r, "save_failed")
            /\ r = "ok" => tpl' = [t \in Template |-> IF t \in Template THEN row[m].snapshot[t] ELSE tpl[t]]
      BY Zenon, <2>3 DEF RestoreTemplates
    <3>2. exec[m].pc = "restore_templates" /\ UNCHANGED dep
      BY <2>3 DEF RestoreTemplates, At, cluster
    <3> QED
      BY Zenon, <3>1, <3>2 DEF Applied
  <2> QED
    BY <2>1, <2>2, <2>3
<1> DEFINE k == [exec[m] EXCEPT !.pc = pc, !.undo = IF Applied(r) THEN exec[m].undo ELSE "broken"]
<1>8. exec' = [exec EXCEPT ![m] = k]
  BY Zenon, <1>7 DEF Restoring
<1>9. exec'[m] = k /\ k.pc = pc /\ k.undo = IF Applied(r) THEN exec[m].undo ELSE "broken"
  BY <1>3, <1>8 DEF IInv, Shape, ExecShape
<1>10. k \in ExecShape
  BY <1>1, <1>9 DEF Shape
<1> HIDE DEF k
<1>11. ASSUME pc = "restore_templates" PROVE Place(m)'
  <2>1. exec'[m].pc = "restore_templates" /\ (exec'[m].undo # "broken" => Applied(r) /\ exec[m].undo # "broken")
    BY Zenon, <1>9, <1>11
  <2>2. exec'[m].undo # "broken" => dep.claim = row[m].src
    BY <1>3, <1>7, <1>11, <2>1 DEF Place
  <2>3. exec'[m].undo # "broken" => dep'.replicas = row[m].replicas
    BY ZenonT(40), <1>3, <1>7, <1>11, <2>1 DEF DepShape
  <2> QED
    BY Zenon, <1>2, <1>4, <1>5, <2>1, <2>2, <2>3 DEF Place, Before, Emptied, Switched, Settled
<1>12. ASSUME pc = "save_failed" PROVE Place(m)'
  <2>1. exec'[m].pc = "save_failed" /\ (exec'[m].undo # "broken" => Applied(r) /\ exec[m].undo # "broken")
    BY Zenon, <1>9, <1>12
  <2>2. exec'[m].undo # "broken" => dep.claim = row[m].src /\ dep.replicas = row[m].replicas
    BY <1>3, <1>7, <1>12, <2>1 DEF Place
  <2>3. exec'[m].undo # "broken" => tpl' = row[m].snapshot /\ UNCHANGED dep
    BY <1>6, <1>7, <1>12, <2>1
  <2> QED
    BY <1>2, <1>4, <1>5, <2>1, <2>2, <2>3 DEF Place, Before, Emptied, Switched, Settled, Reverted
<1>13. Place(m)'
  BY Zenon, <1>11, <1>12
<1>14. exec[m].pc \in Busy \ {"insert"} /\ k.pc \in Busy \ {"insert"}
  BY Zenon, <1>2, <1>9, Places
<1> QED
  BY Zenon, <1>1, <1>2, <1>4, <1>8, <1>10, <1>13, <1>14, Local

-----------------------------------------------------------------------------
(* The steps that save a status.                                           *)

\* Places a goroutine moves to when a status was saved, seen from the place it
\* saves it at: what it relies on is the same.
LEMMA SavePlace ==
    ASSUME IInv, NEW m \in Migration, UNCHANGED <<dep, tpl, pods, vol>>,
           \A n \in Migration : row'[n].src = row[n].src,
           row'[m].node = row[m].node, row'[m].replicas = row[m].replicas, row'[m].snapshot = row[m].snapshot,
           NEW pc, exec'[m].pc = pc,
           \/ pc = "done"
           \/ exec[m].pc \in Before /\ pc \in Before
           \/ exec[m].pc = "save_copying" /\ pc = "copy_begin"
           \/ exec[m].pc = "save_cutover" /\ pc = "delete_holder"
           \/ exec[m].pc = "save_waiting" /\ pc = "wait_ready"
    PROVE  Place(m)'
<1>1. Place(m)
  BY Zenon DEF IInv
<1>2. \A n \in Migration : Settled(n)' <=> Settled(n)
  BY DEF Settled
<1>3. Reverted(m)' <=> Reverted(m)
  BY Zenon DEF Reverted
<1>4. CASE pc = "done"
  BY Zenon, <1>4 DEF Place, Busy, Before, Emptied, Switched
<1>5. CASE exec[m].pc \in Before /\ pc \in Before
  <2>1. exec[m].pc \in Busy
    BY Zenon, <1>5 DEF Before, Busy, ExecPc, DropsTarget, Handler
  <2>2. dep.claim \in {row[m].src, m} /\ (row[m].src \in Migration => Settled(row[m].src)) /\ Reverted(m) /\ dep.replicas = row[m].replicas
    BY Zenon, <1>1, <1>5, <2>1 DEF Place
  <2> QED
    BY Zenon, <1>2, <1>3, <1>5, <2>2 DEF Place, Before, Emptied, Switched
<1>6. CASE exec[m].pc = "save_copying" /\ pc = "copy_begin"
  BY Zenon, <1>1, <1>2, <1>6 DEF Place, Before, Emptied, Switched, Busy, ExecPc, RestoresSource
<1>7. CASE exec[m].pc = "save_cutover" /\ pc = "delete_holder"
  BY ZenonT(40), <1>1, <1>2, <1>7 DEF Place, Before, Emptied, Switched, Busy, ExecPc, RestoresSource
<1>8. CASE exec[m].pc = "save_waiting" /\ pc = "wait_ready"
  BY <1>1, <1>2, <1>8 DEF Place, Before, Emptied, Switched, Busy, ExecPc, RestoresSource
<1> QED
  BY <1>4, <1>5, <1>6, <1>7, <1>8

\* A saved status keeps the invariant when it fits the place that follows.
LEMMA StatusSaved ==
    ASSUME IInv, OneAtATime, NEW m \in Migration, exec[m].pc \in Busy,
           NEW status \in Status \ {"absent", "cleaned"}, NEW pc \in (Busy \ {"insert"}) \union {"done"},
           SaveStatus(m, status, pc),
           pc \in Busy => status \in Unfinished \ {"cleanup_pending"},
           status = "cleanup_pending" => dep.claim = m,
           \/ pc = "done"
           \/ exec[m].pc \in Before /\ pc \in Before
           \/ exec[m].pc = "save_copying" /\ pc = "copy_begin"
           \/ exec[m].pc = "save_cutover" /\ pc = "delete_holder"
           \/ exec[m].pc = "save_waiting" /\ pc = "wait_ready"
    PROVE  IInv'
<1>1. Shape'
  BY SaveShape DEF IInv, Busy, ExecPc
<1>2. UNCHANGED <<dep, tpl, pods, vol, pvc, cleaner>>
  BY DEF SaveStatus, cluster, requests
<1>3. row[m] \in RowShape
  BY DEF IInv, Shape
<1>4. /\ \A n \in Migration \ {m} : row'[n] = row[n]
      /\ \A n \in Migration : row'[n].src = row[n].src
      /\ row'[m].node = row[m].node /\ row'[m].replicas = row[m].replicas /\ row'[m].snapshot = row[m].snapshot
  BY <1>3 DEF SaveStatus, IInv, Shape, RowShape
<1>5. /\ \A n \in Migration \ {m} : exec'[n] = exec[n]
      /\ \/ exec'[m].pc = pc /\ row'[m].status = status
         \/ exec'[m].pc = "done" /\ row'[m].status = row[m].status
  <2>1. exec[m] \in ExecShape
    BY Zenon DEF IInv, Shape
  <2> QED
    BY <1>3, <2>1 DEF SaveStatus, Goto, IInv, Shape, RowShape, ExecShape
<1>6. \A n \in Migration \ {m} : exec'[n].pc \in {"idle", "done"}
  BY ZenonT(40), <1>5, RestingOthers DEF Busy
<1>7. Place(m)'
  BY <1>2, <1>4, <1>5, SavePlace
<1>8. \A n \in Migration : Place(n)'
  BY Zenon, <1>6, <1>7, PlacesAtRest
<1>9. Recorded(m) /\ Others(m)
  BY Zenon DEF IInv
<1>10. \A n \in Migration : Others(n)'
  <2>1. Others(m)'
    BY <1>4, <1>5, <1>9 DEF Others, Busy
  <2> QED
    BY Zenon, <1>6, <2>1 DEF Others, Busy
<1>11. /\ row[m].status \notin Succeeded /\ row[m].src # m
       /\ row[m].src \in Migration => row[row[m].src].status # "absent"
       /\ exec[m].pc # "insert" => row[m].status \in Unfinished
  BY Zenon, <1>9 DEF Recorded, Succeeded, Unfinished, Terminal
<1>12. \A n \in Migration : Recorded(n)'
  <2>1. Recorded(m)'
    BY ZenonT(40), <1>2, <1>4, <1>5, <1>9, <1>11 DEF Recorded, Busy
  <2>2. ASSUME NEW n \in Migration \ {m} PROVE Recorded(n)'
    <3>1. Recorded(n)
      BY Zenon DEF IInv
    <3>2. row[m].status # "absent" => row'[m].status # "absent"
      BY Zenon, <1>5
    <3> QED
      BY ZenonT(40), <1>2, <1>4, <1>5, <3>1, <3>2 DEF Recorded
  <2> QED
    BY Zenon, <2>1, <2>2
<1>13. Single'
  <2>1. ASSUME NEW n \in Migration \ {m}, row[n].status \in Unfinished, row'[m].status \in Unfinished, row[n].src = row[m].src
        PROVE  FALSE
    <3>1. exec[m].pc = "insert"
      BY Zenon, <1>11, <2>1 DEF IInv, Single
    <3> QED
      BY Zenon, <1>9, <2>1, <3>1 DEF Others
  <2>2. Single
    BY Zenon DEF IInv
  <2> QED
    BY <1>4, <2>1, <2>2 DEF Single
<1>14. \A n \in Migration : (dep.claim = n \/ row[n].status \in Succeeded => Settled(n))'
  <2>1. ASSUME NEW n \in Migration PROVE Settled(n)' <=> Settled(n)
    <3>1. row'[n].src = row[n].src
      BY Zenon, <1>4
    <3>2. pods' = pods /\ dep' = dep /\ vol' = vol
      BY <1>2
    <3> QED
      BY Zenon, <3>1, <3>2 DEF Settled
  <2>2. row'[m].status \in Succeeded => dep.claim = m
    BY <1>5, <1>11 DEF Succeeded
  <2> QED
    BY ZenonT(40), <1>2, <1>4, <2>1, <2>2 DEF IInv
<1> QED
  BY ZenonT(40), <1>1, <1>8, <1>10, <1>12, <1>13, <1>14 DEF IInv

LEMMA SavingSteps ==
    ASSUME IInv, OneAtATime, NEW m \in Migration,
           \/ InsertMigration(m) \/ StartMigration(m) \/ SavePreflight(m) \/ SaveProvisioning(m) \/ SaveStopping(m)
           \/ SaveCopying(m) \/ SaveCutover(m) \/ SaveWaiting(m) \/ SaveCleanupPending(m) \/ SaveFailed(m)
    PROVE  IInv'
<1>1. "insert" \in Busy /\ "done" \notin Busy
  BY DEF Busy, ExecPc, Handler
<1>2. /\ {"pending", "preflight", "provisioning_target", "stopping_source", "copying", "cutover", "waiting_ready"}
           \subseteq Unfinished \ {"cleanup_pending"}
      /\ {"pending", "preflight", "provisioning_target", "stopping_source", "copying", "cutover", "waiting_ready", "cleanup_pending", "failed"}
           \subseteq Status \ {"absent", "cleaned"}
  BY Zenon DEF Unfinished, Status, Terminal
<1>3. CASE InsertMigration(m) \/ StartMigration(m) \/ SavePreflight(m) \/ SaveProvisioning(m) \/ SaveStopping(m)
  <2>1. PICK status \in {"pending", "preflight", "provisioning_target", "stopping_source"},
             pc \in {"name_target", "start", "preflight", "create_claim", "scale_down"} :
               SaveStatus(m, status, pc) /\ exec[m].pc \in {"insert", "name_target", "start", "save_provisioning", "save_stopping"}
    BY Zenon, <1>3 DEF InsertMigration, StartMigration, SavePreflight, SaveProvisioning, SaveStopping, At
  <2>2. exec[m].pc \in Before /\ pc \in Before /\ pc \in Busy \ {"insert"} /\ exec[m].pc \in Busy
    BY Zenon, <1>1, <2>1, Places DEF Before
  <2> QED
    BY Zenon, <1>2, <2>1, <2>2, StatusSaved
<1>4. CASE SaveCopying(m) \/ SaveCutover(m) \/ SaveWaiting(m)
  <2>1. PICK status \in {"copying", "cutover", "waiting_ready"}, pc \in {"copy_begin", "delete_holder", "wait_ready"} :
          /\ SaveStatus(m, status, pc)
          /\ \/ exec[m].pc = "save_copying" /\ pc = "copy_begin"
             \/ exec[m].pc = "save_cutover" /\ pc = "delete_holder"
             \/ exec[m].pc = "save_waiting" /\ pc = "wait_ready"
    BY Zenon, <1>4 DEF SaveCopying, SaveCutover, SaveWaiting, At
  <2>2. pc \in Busy \ {"insert"} /\ exec[m].pc \in Busy
    BY Zenon, <2>1, Places
  <2> QED
    BY Zenon, <1>2, <2>1, <2>2, StatusSaved
<1>5. CASE SaveCleanupPending(m) \/ SaveFailed(m)
  <2>1. PICK status \in {"cleanup_pending", "failed"} :
          /\ SaveStatus(m, status, "done")
          /\ exec[m].pc \in {"save_cleanup", "save_failed"}
          /\ status = "cleanup_pending" => exec[m].pc = "save_cleanup"
    BY <1>5 DEF SaveCleanupPending, SaveFailed, At
  <2>2. status = "cleanup_pending" => dep.claim = m
    BY Zenon, <2>1 DEF IInv, Place, Switched
  <2>3. exec[m].pc \in Busy
    BY <2>1, Places
  <2> QED
    BY Zenon, <1>1, <1>2, <2>1, <2>2, <2>3, StatusSaved
<1> QED
  BY Zenon, <1>3, <1>4, <1>5

-----------------------------------------------------------------------------
(* The steps that change a volume or the claim of the Deployment.          *)

LEMMA Switching ==
    ASSUME IInv, OneAtATime, NEW m \in Migration, exec[m].pc \in Busy \ {"insert"},
           NEW k \in ExecShape, k.pc \in Busy \ {"insert"}, exec' = [exec EXCEPT ![m] = k],
           UNCHANGED <<row, cleaner, pods, pvc>>,
           \A n \in Migration : row[n].status = "absent" => dep'.claim # n,
           \A n \in Migration : dep'.claim = n \/ row[n].status \in Succeeded => Settled(n)',
           Place(m)', Shape'
    PROVE  IInv'
<1>1. exec'[m] = k /\ \A n \in Migration \ {m} : exec'[n] = exec[n]
  BY Zenon DEF IInv, Shape
<1>2. \A n \in Migration \ {m} : exec'[n].pc \in {"idle", "done"}
  BY <1>1, RestingOthers DEF Busy
<1>3. \A n \in Migration : Place(n)'
  BY Zenon, <1>2, PlacesAtRest
<1>4. \A n \in Migration : Others(n)'
  <2>1. Others(m) /\ exec'[m].pc \in Busy \ {"insert", "read_source"}
    BY Zenon, <1>1 DEF IInv, Busy
  <2>2. Others(m)'
    BY Zenon, <1>1, <2>1 DEF Others
  <2> QED
    BY Zenon, <1>2, <2>2 DEF Others, Busy
<1>5. \A n \in Migration : Recorded(n)'
  <2>1. Recorded(m)'
    <3>1. row[m].status \in Unfinished \ {"cleanup_pending"} /\ row[m].status # "absent" /\ Recorded(m)
      BY Zenon, BusyFacts DEF IInv
    <3> QED
      BY Zenon, <1>1, <3>1 DEF Recorded, Busy
  <2>2. ASSUME NEW n \in Migration, n # m PROVE Recorded(n)'
    <3>1. Recorded(n)
      BY DEF IInv
    <3> QED
      BY ZenonT(40), <1>1, <2>2, <3>1 DEF Recorded
  <2> QED
    BY Zenon, <2>1, <2>2
<1> QED
  BY Zenon, <1>3, <1>4, <1>5 DEF IInv, Single

\* The target receives the data of the source, all of it when the stream ends well.
LEMMA CopyEndStep ==
    ASSUME IInv, OneAtATime, NEW m \in Migration, CopyEnd(m)
    PROVE  IInv'
<1>1. Shape'
  BY Zenon, GoroutineShape DEF Goroutine, IInv
<1>2. UNCHANGED <<row, cleaner, pods, dep, pvc, tpl>> /\ exec[m].pc = "copy_end"
  BY Zenon DEF CopyEnd, requests, At
<1>3. Place(m) /\ Others(m) /\ exec[m] \in ExecShape /\ m \in Claim
  BY Zenon DEF IInv, Shape, Claim
<1>4. exec[m].pc \in Fallible \ Before /\ exec[m].pc \in Busy \ {"insert"}
  BY <1>2, Places DEF Fallible, RestoresSource, Before
<1>5. PICK r : Continue(m, r, "save_cutover") /\ \E part : vol' = [vol EXCEPT ![m] = @ \union part] /\ (r = "ok" => part = exec[m].data)
  BY Zenon DEF CopyEnd
<1>6. PICK part : vol' = [vol EXCEPT ![m] = @ \union part] /\ (r = "ok" => part = exec[m].data)
  BY Zenon, <1>5
<1>7. vol'[m] = vol[m] \union part /\ \A c \in Claim \ {m} : vol'[c] = vol[c]
  BY Zenon, <1>3, <1>6 DEF IInv, Shape
<1>8. /\ row[m].status \notin Succeeded /\ row[m].src # m /\ row[m].src \in Claim
      /\ row[m].src \in Migration => Settled(row[m].src) /\ row[row[m].src].status # "absent"
  BY ZenonT(40), <1>4, BusyFacts
<1>9. dep.claim = row[m].src /\ dep.replicas = 0 /\ tpl = row[m].snapshot /\ pods = {} /\ exec[m].data = vol[row[m].src]
  BY <1>2, <1>3 DEF Place, Emptied
<1>10. ASSUME NEW n \in Migration, n # m, row[n].status # "absent", Settled(n) PROVE Settled(n)'
  <2>1. row[n].src # m /\ row[n].src \in Claim /\ n \in Claim
    BY <1>3, <1>4, <1>10 DEF Others, IInv, Shape, RowShape, Claim
  <2> QED
    BY Zenon, <1>2, <1>7, <1>10, <2>1 DEF Settled
<1>11. row[m].src \in Migration => Settled(row[m].src)'
  BY Zenon, <1>2, <1>8, <1>10 DEF Settled
<1>12. \A n \in Migration : row[n].status = "absent" => dep'.claim # n
  BY Zenon, <1>2 DEF IInv, Recorded
<1>13. ASSUME NEW n \in Migration, dep'.claim = n \/ row[n].status \in Succeeded PROVE Settled(n)'
  <2>1. n # m /\ Settled(n)
    BY <1>2, <1>8, <1>9, <1>13 DEF IInv
  <2>2. row[n].status # "absent"
    BY <1>12, <1>13 DEF Succeeded
  <2> QED
    BY ZenonT(40), <1>10, <2>1, <2>2
<1>14. CASE r = "ok"
  <2> DEFINE k == [exec[m] EXCEPT !.pc = "save_cutover"]
  <2>1. exec' = [exec EXCEPT ![m] = k]
    BY <1>5, <1>14 DEF Continue, Goto
  <2>2. exec'[m] = k /\ k.pc = "save_cutover"
    BY <1>3, <2>1 DEF IInv, Shape, ExecShape
  <2>3. k \in ExecShape /\ k.pc \in Busy \ {"insert"}
    BY <1>1, <2>2, Places DEF Shape
  <2> HIDE DEF k
  <2>4. vol'[row[m].src] \subseteq vol'[m]
    BY ZenonT(40), <1>6, <1>7, <1>8, <1>9, <1>14
  <2>5. Place(m)'
    BY <1>2, <1>9, <1>11, <2>2, <2>4 DEF Place, Before, Emptied, Switched
  <2> QED
    BY Zenon, <1>1, <1>2, <1>4, <1>12, <1>13, <2>1, <2>3, <2>5, Switching
<1>15. CASE r # "ok"
  <2>1. Failing(m)
    BY ZenonT(40), <1>5, <1>15 DEF Continue
  <2>2. Place(m)' /\ \E k \in ExecShape : exec' = [exec EXCEPT ![m] = k] /\ k.pc \in Busy \ {"insert"}
    BY <1>2, <1>4, <1>9, <1>11, <2>1, FailPlace
  <2> QED
    BY Zenon, <1>1, <1>2, <1>4, <1>12, <1>13, <2>2, Switching
<1> QED
  BY <1>14, <1>15

\* The Deployment is switched to the target.
LEMMA ReplaceClaimStep ==
    ASSUME IInv, OneAtATime, NEW m \in Migration, ReplaceClaim(m)
    PROVE  IInv'
<1>1. Shape'
  BY Zenon, GoroutineShape DEF Goroutine, IInv
<1>2. UNCHANGED <<row, cleaner, pods, vol, pvc, tpl>> /\ exec[m].pc = "replace_claim"
  BY Zenon DEF ReplaceClaim, requests, At
<1>3. Place(m) /\ Others(m) /\ exec[m] \in ExecShape /\ dep \in DepShape
  BY Zenon DEF IInv, Shape
<1>4. exec[m].pc \in Fallible \ Before /\ exec[m].pc \in Busy \ {"insert"}
  BY Zenon, <1>2, Places DEF Fallible, RestoresSource, Before
<1>5. /\ row[m].status \notin Succeeded /\ row[m].status # "absent" /\ row[m].src # m /\ row[m].src \in Claim
      /\ row[m].src \in Migration => Settled(row[m].src) /\ row[row[m].src].status # "absent"
  BY ZenonT(40), <1>4, BusyFacts
<1>6. dep.claim = row[m].src /\ tpl = row[m].snapshot /\ pods = {} /\ vol[row[m].src] \subseteq vol[m]
  BY <1>2, <1>3 DEF Place, Emptied
<1>7. PICK r \in {"ok", "refused", "lost"} :
          /\ Continue(m, r, "replace_templates")
          /\ dep' = IF Applied(r) THEN [dep EXCEPT !.claim = m, !.node = row[m].node] ELSE dep
  BY <1>6, Replies DEF ReplaceClaim, ReplaceDeploymentPVCNode
<1>8. dep'.claim \in {row[m].src, m} /\ (r = "ok" => dep'.claim = m /\ dep'.node = row[m].node)
  BY <1>3, <1>6, <1>7 DEF Applied, DepShape
<1>9. ASSUME NEW n \in Migration, n # m, row[n].status # "absent", Settled(n) PROVE Settled(n)'
  <2>1. row[n].src # m
    BY Zenon, <1>3, <1>4, <1>9 DEF Others
  <2> QED
    BY Zenon, <1>2, <1>6, <1>8, <1>9, <2>1 DEF Settled
<1>10. row[m].src \in Migration => Settled(row[m].src)'
  BY ZenonT(40), <1>2, <1>5, <1>9 DEF Settled
<1>11. \A n \in Migration : row[n].status = "absent" => dep'.claim # n
  BY <1>5, <1>8 DEF IInv, Recorded
<1>12. ASSUME NEW n \in Migration, dep'.claim = n \/ row[n].status \in Succeeded PROVE Settled(n)'
  <2>1. CASE n = m
    BY Zenon, <1>2, <1>5, <1>6, <1>12, <2>1 DEF Settled
  <2>2. CASE n # m
    <3>1. row[n].status # "absent" /\ Settled(n)
      BY <1>6, <1>8, <1>11, <1>12, <2>2 DEF Succeeded, IInv
    <3> QED
      BY ZenonT(40), <1>9, <2>2, <3>1
  <2> QED
    BY Zenon, <2>1, <2>2
<1>13. CASE r = "ok"
  <2> DEFINE k == [exec[m] EXCEPT !.pc = "replace_templates"]
  <2>1. exec' = [exec EXCEPT ![m] = k]
    BY <1>7, <1>13 DEF Continue, Goto
  <2>2. exec'[m] = k /\ k.pc = "replace_templates"
    BY <1>3, <2>1 DEF IInv, Shape, ExecShape
  <2>3. k \in ExecShape /\ k.pc \in Busy \ {"insert"}
    BY <1>1, <2>2, Places DEF Shape
  <2> HIDE DEF k
  <2>4. Place(m)'
    BY Zenon, <1>2, <1>6, <1>8, <1>10, <1>13, <2>2 DEF Place, Before, Emptied, Switched
  <2> QED
    BY Zenon, <1>1, <1>2, <1>4, <1>11, <1>12, <2>1, <2>3, <2>4, Switching
<1>14. CASE r # "ok"
  <2>1. Failing(m)
    BY Zenon, <1>7, <1>14 DEF Continue
  <2>2. Place(m)' /\ \E k \in ExecShape : exec' = [exec EXCEPT ![m] = k] /\ k.pc \in Busy \ {"insert"}
    BY <1>2, <1>4, <1>8, <1>10, <2>1, FailPlace
  <2> QED
    BY Zenon, <1>1, <1>2, <1>4, <1>11, <1>12, <2>2, Switching
<1> QED
  BY <1>13, <1>14

\* The Deployment is switched back to the source.
LEMMA RestoreClaimStep ==
    ASSUME IInv, OneAtATime, NEW m \in Migration, RestoreClaim(m)
    PROVE  IInv'
<1>1. Shape'
  BY Zenon, GoroutineShape DEF Goroutine, IInv
<1>2. UNCHANGED <<row, cleaner, pods, vol, pvc, tpl>> /\ exec[m].pc = "restore_claim"
  BY Zenon DEF RestoreClaim, requests, At
<1>3. Place(m) /\ Others(m) /\ exec[m] \in ExecShape /\ dep \in DepShape
  BY Zenon DEF IInv, Shape
<1>4. exec[m].pc \in Busy \ {"insert"}
  BY Zenon, <1>2, Places
<1>5. /\ row[m].status \notin Succeeded /\ row[m].status # "absent" /\ row[m].src # m
      /\ row[m].src \in Migration => Settled(row[m].src) /\ row[row[m].src].status # "absent"
      /\ dep.claim \in {row[m].src, m}
  BY <1>4, BusyFacts
<1>6. PICK r \in {"ok", "refused", "lost"} :
          /\ Restoring(m, r, "restore_replicas")
          /\ dep' = IF Applied(r) /\ dep.claim = m THEN [dep EXCEPT !.claim = row[m].src, !.node = row[m].srcNode] ELSE dep
  BY Replies DEF RestoreClaim, ReplaceDeploymentPVCNode
<1>7. dep'.claim \in {dep.claim, row[m].src} /\ (Applied(r) => dep'.claim = row[m].src)
  BY Zenon, <1>3, <1>5, <1>6 DEF DepShape
<1>8. ASSUME NEW n \in Migration, Settled(n), row[n].src # row[m].src PROVE Settled(n)'
  BY Zenon, <1>2, <1>7, <1>8 DEF Settled
<1>9. row[m].src \in Migration => Settled(row[m].src)'
  <2>1. row[m].src \in Migration => row[row[m].src].src # row[m].src
    BY <1>5 DEF IInv, Recorded
  <2> QED
    BY Zenon, <1>2, <1>5, <1>8, <2>1 DEF Settled
<1>10. \A n \in Migration : row[n].status = "absent" => dep'.claim # n
  BY ZenonT(40), <1>5, <1>7 DEF IInv, Recorded
<1>11. ASSUME NEW n \in Migration, dep'.claim = n \/ row[n].status \in Succeeded PROVE Settled(n)'
  <2>1. CASE n = row[m].src
    BY <1>2, <1>9, <2>1 DEF Settled
  <2>2. CASE n # row[m].src /\ row[n].status \in Succeeded
    <3>1. n # m /\ row[n].src # row[m].src /\ Settled(n)
      BY Zenon, <1>3, <1>4, <1>5, <2>2 DEF Others, IInv
    <3> QED
      BY <1>8, <3>1
  <2>3. CASE n # row[m].src /\ row[n].status \notin Succeeded
    <3>1. dep'.claim = dep.claim /\ dep.claim = n
      BY <1>5, <1>7, <1>11, <2>3
    <3> QED
      BY Zenon, <1>2, <3>1 DEF IInv, Settled
  <2> QED
    BY Zenon, <2>1, <2>2, <2>3
<1> DEFINE k == [exec[m] EXCEPT !.pc = "restore_replicas", !.undo = IF Applied(r) THEN exec[m].undo ELSE "broken"]
<1>12. exec' = [exec EXCEPT ![m] = k]
  BY Zenon, <1>6 DEF Restoring
<1>13. exec'[m] = k /\ k.pc = "restore_replicas" /\ (k.undo # "broken" => Applied(r))
  BY <1>3, <1>12 DEF IInv, Shape, ExecShape
<1>14. k \in ExecShape /\ k.pc \in Busy \ {"insert"}
  BY <1>1, <1>13, Places DEF Shape
<1> HIDE DEF k
<1>15. Place(m)'
  BY Zenon, <1>2, <1>5, <1>7, <1>9, <1>13 DEF Place, Before, Emptied, Switched
<1> QED
  BY Zenon, <1>1, <1>2, <1>4, <1>10, <1>11, <1>12, <1>14, <1>15, Switching

-----------------------------------------------------------------------------
(* The create handler.                                                     *)

LEMMA FindStep ==
    ASSUME IInv, OneAtATime', NEW m \in Migration, NEW c \in Claim, FindActiveMigration(m, c)
    PROVE  IInv'
<1>1. Shape'
  BY Zenon, CreateShape DEF CreateHandler, IInv
<1>2. UNCHANGED <<dep, tpl, pods, vol, pvc, cleaner>> /\ exec[m].pc = "idle" /\ row[m].status = "absent" /\ Active(c) = {}
  BY Zenon DEF FindActiveMigration, cluster, requests, At
<1>3. row[m] \in RowShape /\ exec[m] \in ExecShape
  BY DEF IInv, Shape
<1>4. /\ \A n \in Migration \ {m} : row'[n] = row[n] /\ exec'[n] = exec[n]
      /\ row'[m].status = "absent" /\ row'[m].src = c /\ exec'[m].pc = "read_source"
  BY ZenonT(40), <1>2, <1>3 DEF FindActiveMigration, IInv, Shape, RowShape, ExecShape
<1>5. \A n \in Migration \ {m} : exec'[n].pc \in {"idle", "done"}
  BY Zenon, <1>4 DEF OneAtATime
<1>6. \A n \in Migration : Place(n)'
  BY Zenon, <1>4, <1>5 DEF Place, Busy, Before, Emptied, Switched
<1>7. \A n \in Migration : Others(n)'
  <2>1. ASSUME NEW n \in Migration \ {m}, row'[n].status \in Unfinished PROVE row'[n].src # row'[m].src
    BY Zenon, <1>2, <1>4, <2>1 DEF Active, Unfinished
  <2>2. Others(m)'
    BY <1>4, <2>1 DEF Others, Busy
  <2> QED
    BY Zenon, <1>5, <2>2 DEF Others, Busy
<1>8. \A n \in Migration : Recorded(n)'
  <2>1. Recorded(m) /\ \A n \in Migration : row'[n].status = row[n].status
    BY <1>2, <1>4 DEF IInv
  <2>2. Recorded(m)'
    BY Zenon, <1>2, <1>4, <2>1 DEF Recorded, Busy
  <2>3. ASSUME NEW n \in Migration \ {m} PROVE Recorded(n)'
    <3>1. Recorded(n)
      BY DEF IInv
    <3> QED
      BY ZenonT(40), <1>2, <1>4, <2>1, <3>1 DEF Recorded
  <2> QED
    BY ZenonT(40), <2>2, <2>3
<1>9. Single'
  BY ZenonT(40), <1>4 DEF IInv, Single, Unfinished
<1>10. \A n \in Migration : (dep.claim = n \/ row[n].status \in Succeeded => Settled(n))'
  <2>1. dep.claim # m
    BY Zenon, <1>2 DEF IInv, Recorded
  <2> QED
    BY Zenon, <1>2, <1>4, <2>1 DEF IInv, Settled, Succeeded
<1> QED
  BY Zenon, <1>1, <1>6, <1>7, <1>8, <1>9, <1>10 DEF IInv

\* The record is filled in with what the workload and the templates are like.
LEMMA ReadStep ==
    ASSUME IInv, OneAtATime, NEW m \in Migration, NEW n0 \in Node, ReadSource(m, n0)
    PROVE  IInv'
<1> DEFINE c == row[m].src
<1>1. Shape'
  BY Zenon, CreateShape DEF CreateHandler, IInv
<1>2. /\ UNCHANGED <<dep, tpl, pods, vol, pvc, cleaner>> /\ exec[m].pc = "read_source"
      /\ pvc[c] = "bound" /\ dep.claim = c
  BY Zenon DEF ReadSource, cluster, requests, At
<1>3. row[m] \in RowShape /\ exec[m] \in ExecShape
  BY DEF IInv, Shape
<1>4. /\ \A n \in Migration \ {m} : row'[n] = row[n] /\ exec'[n] = exec[n]
      /\ row'[m].status = row[m].status /\ row'[m].src = c /\ exec'[m].pc = "insert"
      /\ row'[m].replicas = dep.replicas /\ row'[m].snapshot = tpl
  BY ZenonT(40), <1>3 DEF ReadSource, Goto, IInv, Shape, RowShape, ExecShape
<1>5. Recorded(m) /\ Others(m)
  BY Zenon DEF IInv
<1>6. row[m].status = "absent" /\ pvc[m] = "absent" /\ c # m /\ (c \in Migration => row[c].status # "absent" /\ Settled(c))
  <2>1. row[m].status = "absent" /\ pvc[m] = "absent"
    BY Zenon, <1>2, <1>5 DEF Recorded
  <2>2. c \in Migration => row[c].status # "absent" /\ Settled(c)
    BY <1>2 DEF IInv, Recorded
  <2> QED
    BY Zenon, <1>2, <2>1, <2>2
<1> HIDE DEF c
<1>7. \A n \in Migration \ {m} : exec'[n].pc \in {"idle", "done"}
  BY Zenon, <1>2, <1>4, RestingOthers
<1>8. \A n \in Migration : Place(n)'
  <2>1. (row[m].src \in Migration => Settled(row[m].src))'
    BY Zenon, <1>2, <1>4, <1>6 DEF Settled
  <2>2. Reverted(m)'
    BY Zenon, <1>2, <1>4 DEF Reverted
  <2>3. Place(m)'
    BY Zenon, <1>2, <1>4, <2>1, <2>2 DEF Place, Busy, Before, Emptied, Switched
  <2> QED
    BY Zenon, <1>7, <2>3, PlacesAtRest
<1>9. \A n \in Migration : Others(n)'
  <2>1. ASSUME NEW n \in Migration \ {m}, row'[n].status # "absent" PROVE row'[n].src # m
    <3>1. row[n] = row'[n] /\ Recorded(n)
      BY Zenon, <1>4 DEF IInv
    <3>2. row[n].src \in Migration => row[row[n].src].status # "absent"
      BY Zenon, <2>1, <3>1 DEF Recorded
    <3> QED
      BY Zenon, <1>6, <3>1, <3>2
  <2>2. ASSUME NEW n \in Migration \ {m}, row'[n].status \in Succeeded PROVE row'[n].src # row'[m].src
    BY Zenon, <1>2, <1>4, <2>2 DEF IInv, Settled
  <2>3. ASSUME NEW n \in Migration \ {m}, row'[n].status \in Unfinished PROVE row'[n].src # row'[m].src
    BY Zenon, <1>2, <1>4, <1>5, <2>3 DEF Others, c
  <2>4. Others(m)'
    BY Zenon, <2>1, <2>2, <2>3 DEF Others
  <2> QED
    BY Zenon, <1>7, <2>4 DEF Others, Busy
<1>10. \A n \in Migration : Recorded(n)'
  <2>1. \A n \in Migration : row'[n].status = row[n].status
    BY Zenon, <1>4
  <2>2. Recorded(m)'
    BY Zenon, <1>2, <1>4, <1>5, <1>6, <2>1 DEF Recorded, Busy
  <2>3. ASSUME NEW n \in Migration \ {m} PROVE Recorded(n)'
    <3>1. Recorded(n)
      BY Zenon DEF IInv
    <3> QED
      BY Zenon, <1>2, <1>4, <2>1, <3>1 DEF Recorded
  <2> QED
    BY <2>2, <2>3
<1>11. Single'
  BY <1>4, <1>6 DEF IInv, Single, Unfinished
<1>12. \A n \in Migration : (dep.claim = n \/ row[n].status \in Succeeded => Settled(n))'
  BY ZenonT(40), <1>2, <1>4, <1>6 DEF IInv, Settled, Succeeded, c
<1> QED
  BY Zenon, <1>1, <1>8, <1>9, <1>10, <1>11, <1>12 DEF IInv

LEMMA RejectStep ==
    ASSUME IInv, OneAtATime, NEW m \in Migration, RejectMigration(m)
    PROVE  IInv'
<1>1. Shape'
  BY Zenon, CreateShape DEF CreateHandler, IInv
<1>2. UNCHANGED <<row, dep, tpl, pods, vol, pvc, cleaner>> /\ exec[m].pc = "read_source"
  BY DEF RejectMigration, cluster, requests, At
<1>3. exec'[m].pc = "idle" /\ \A n \in Migration \ {m} : exec'[n] = exec[n]
  <2>1. exec[m] \in ExecShape
    BY Zenon DEF IInv, Shape
  <2> QED
    BY Zenon, <2>1 DEF RejectMigration, Goto, IInv, Shape, ExecShape
<1>4. \A n \in Migration : exec'[n].pc \in {"idle", "done"}
  BY <1>2, <1>3, RestingOthers
<1>5. \A n \in Migration : Place(n)' /\ Others(n)'
  BY Zenon, <1>4 DEF Place, Others, Busy, Before, Emptied, Switched
<1>6. ASSUME NEW n \in Migration PROVE Recorded(n)'
  <2>1. Recorded(n)
    BY DEF IInv
  <2> QED
    BY Zenon, <1>2, <1>3, <2>1 DEF Recorded, Busy
<1> QED
  BY Zenon, <1>1, <1>2, <1>5, <1>6 DEF IInv, Single, Settled

-----------------------------------------------------------------------------
(* Cleanup, deletion, cluster and restart.                                 *)

\* A step that leaves records, goroutines, Deployment, templates and volumes
\* alone, starts no pod and touches no claim before its record exists.
LEMMA Aside ==
    ASSUME IInv, Shape', UNCHANGED <<row, dep, tpl, vol>>, pods' \subseteq pods,
           \A n \in Migration : /\ exec'[n].pc = exec[n].pc /\ exec'[n].undo = exec[n].undo /\ exec'[n].data = exec[n].data
                                /\ pvc[n] = "absent" => pvc'[n] = "absent"
                                /\ cleaner'[n] # "idle" => row[n].status \in Succeeded
    PROVE  IInv'
<1>1. ASSUME NEW n \in Migration, Settled(n) PROVE Settled(n)'
  BY Zenon, <1>1 DEF Settled
<1>2. ASSUME NEW n \in Migration PROVE Place(n)'
  <2>1. Place(n)
    BY Zenon DEF IInv
  <2>2. row[n].src \in Migration /\ Settled(row[n].src) => Settled(row[n].src)'
    BY Zenon, <1>1 DEF Settled
  <2>3. pods = {} => pods' = {}
    OBVIOUS
  <2> QED
    BY Zenon, <2>1, <2>2, <2>3, PlaceKept
<1>3. ASSUME NEW n \in Migration PROVE Others(n)' /\ Recorded(n)'
  <2>1. Others(n) /\ Recorded(n)
    BY Zenon DEF IInv
  <2> QED
    BY Zenon, <2>1 DEF Others, Recorded
<1> QED
  BY Zenon, <1>1, <1>2, <1>3 DEF IInv, Single

LEMMA AsideSteps ==
    ASSUME IInv, NEW m \in Migration,
           Deadline(m) \/ CleanupCheck(m) \/ CleanupDelete(m) \/ BindClaim(m)
    PROVE  IInv'
<1>1. Shape'
  BY RequestShape DEF Cleanup, IInv
<1>2. UNCHANGED <<row, dep, tpl, vol, pods>>
  BY Zenon DEF Deadline, CleanupCheck, CleanupDelete, BindClaim, cluster, requests
<1>3. exec[m] \in ExecShape /\ row[m].src \in Claim
  BY Zenon DEF IInv, Shape, RowShape
<1>4. \A n \in Migration : exec'[n].pc = exec[n].pc /\ exec'[n].undo = exec[n].undo /\ exec'[n].data = exec[n].data
  BY <1>3 DEF Deadline, CleanupCheck, CleanupDelete, BindClaim, IInv, Shape, ExecShape
<1>5. \A n \in Migration : pvc[n] = "absent" => pvc'[n] = "absent"
  BY Zenon, <1>3 DEF Deadline, CleanupCheck, CleanupDelete, BindClaim, Delete, IInv, Shape, Claim, cluster
<1>6. ASSUME NEW n \in Migration, cleaner'[n] # "idle" PROVE row[n].status \in Succeeded
  <2>1. Recorded(n) /\ cleaner \in [Migration -> {"idle", "delete", "save"}]
    BY DEF IInv, Shape
  <2>2. cleaner[n] # "idle" \/ row[n].status = "cleanup_pending"
    BY Zenon, <1>6, <2>1 DEF Deadline, CleanupCheck, CleanupDelete, BindClaim, requests
  <2> QED
    BY Zenon, <2>1, <2>2 DEF Recorded, Succeeded
<1> QED
  BY Zenon, <1>1, <1>2, <1>4, <1>5, <1>6, Aside

LEMMA ClaimSteps ==
    ASSUME IInv, NEW c \in Claim, DeleteCheck(c) \/ DeleteClaim(c) \/ ReclaimClaim(c) \/ StopPod(c)
    PROVE  IInv'
<1>1. Shape'
  BY ClaimShape DEF IInv
<1>2. UNCHANGED <<row, exec, cleaner, dep, tpl, vol>> /\ pods' \subseteq pods
  BY Zenon DEF DeleteCheck, DeleteClaim, ReclaimClaim, StopPod, cluster, requests
<1>3. \A n \in Migration : pvc[n] = "absent" => pvc'[n] = "absent"
  BY ZenonT(40) DEF DeleteCheck, DeleteClaim, ReclaimClaim, StopPod, Delete, IInv, Shape, Claim, cluster
<1>4. \A n \in Migration : cleaner'[n] # "idle" => row[n].status \in Succeeded
  BY <1>2 DEF IInv, Recorded
<1> QED
  BY Zenon, <1>1, <1>2, <1>3, <1>4, Aside

\* The record of a migration whose source was deleted.
LEMMA CleanupSaveStep ==
    ASSUME IInv, NEW m \in Migration, CleanupSave(m)
    PROVE  IInv'
<1>1. Shape'
  BY Zenon, RequestShape DEF Cleanup, IInv
<1>2. UNCHANGED <<exec, dep, tpl, vol, pods, pvc>> /\ cleaner[m] = "save"
  BY DEF CleanupSave, cluster
<1>3. row[m] \in RowShape
  BY Zenon DEF IInv, Shape
<1>4. /\ \A n \in Migration \ {m} : row'[n] = row[n]
      /\ \A n \in Migration : cleaner'[n] # "idle" => cleaner[n] # "idle"
      /\ \A n \in Migration : row'[n].src = row[n].src /\ row'[n].node = row[n].node
                              /\ row'[n].replicas = row[n].replicas /\ row'[n].snapshot = row[n].snapshot
      /\ row'[m].status \in {row[m].status, "cleaned"}
  BY <1>3 DEF CleanupSave, IInv, Shape, RowShape
<1>5. row[m].status \in Succeeded /\ row'[m].status \in Succeeded
  BY Zenon, <1>2, <1>4 DEF IInv, Recorded, Succeeded
<1>6. \A n \in Migration : /\ row'[n].status = "absent" <=> row[n].status = "absent"
                           /\ row'[n].status \in Succeeded <=> row[n].status \in Succeeded
                           /\ row'[n].status \in Unfinished => row[n].status \in Unfinished
  BY ZenonT(40), <1>4, <1>5 DEF Succeeded, Unfinished, Terminal
<1>7. \A n \in Migration : Settled(n)' <=> Settled(n)
  BY <1>2, <1>4 DEF Settled
<1>8. ASSUME NEW n \in Migration PROVE Place(n)'
  <2>1. Place(n)
    BY Zenon DEF IInv
  <2>2. row[n].src \in Migration => (Settled(row[n].src)' <=> Settled(row[n].src))
    BY ZenonT(40), <1>2, <1>4 DEF Settled
  <2> QED
    BY Zenon, <1>2, <1>4, <2>1, <2>2, PlaceKept
<1>9. ASSUME NEW n \in Migration PROVE Others(n)' /\ Recorded(n)'
  <2>1. Others(n) /\ Recorded(n) /\ row[n] \in RowShape
    BY Zenon DEF IInv, Shape
  <2>2. Others(n)'
    BY ZenonT(40), <1>2, <1>4, <1>6, <2>1 DEF Others
  <2>3. Recorded(n)'
    BY ZenonT(40), <1>2, <1>4, <1>5, <1>6, <2>1 DEF Recorded, Succeeded, Unfinished, Terminal
  <2> QED
    BY <2>2, <2>3
<1> QED
  BY Zenon, <1>1, <1>2, <1>4, <1>6, <1>7, <1>8, <1>9 DEF IInv, Single

\* A pod starts on the Deployment's claim, which is no source that was left.
LEMMA StartPodStep ==
    ASSUME IInv, StartPod
    PROVE  IInv'
<1>1. Shape'
  BY Zenon, SystemShape DEF IInv
<1>2. UNCHANGED <<row, exec, dep, tpl, vol, pvc, cleaner>> /\ pods' = pods \union {dep.claim} /\ dep.replicas > 0
  BY Zenon DEF StartPod, requests
<1>3. ASSUME NEW n \in Migration, Settled(n) PROVE Settled(n)'
  BY Zenon, <1>2, <1>3 DEF Settled
<1>4. ASSUME NEW n \in Migration PROVE Place(n)'
  <2>1. Place(n)
    BY DEF IInv
  <2>2. row[n].src \in Migration /\ Settled(row[n].src) => Settled(row[n].src)'
    BY Zenon, <1>2, <1>3 DEF Settled
  <2>3. exec[n].pc \notin Emptied
    <3>1. exec[n].pc \in Emptied => dep.replicas = 0
      BY Zenon, <2>1 DEF Place
    <3> QED
      BY <1>2, <3>1
  <2> QED
    BY Zenon, <1>2, <2>1, <2>2, <2>3, PlaceKept
<1>5. ASSUME NEW n \in Migration PROVE Others(n)' /\ Recorded(n)'
  <2>1. Others(n) /\ Recorded(n)
    BY DEF IInv
  <2> QED
    BY Zenon, <1>2, <2>1 DEF Others, Recorded
<1> QED
  BY Zenon, <1>1, <1>2, <1>3, <1>4, <1>5 DEF IInv, Single

\* The application writes to a volume one of its pods mounts: not to a source
\* that was left, and not while a copy is under way.
LEMMA WriteStep ==
    ASSUME IInv, NEW c \in Claim, Write(c)
    PROVE  IInv'
<1>1. Shape'
  BY Zenon, ClaimShape DEF IInv
<1>2. UNCHANGED <<row, exec, dep, tpl, pods, pvc, cleaner>> /\ c \in pods
  BY Zenon DEF Write, requests
<1>3. vol'[c] = vol[c] \union {writes + 1} /\ \A d \in Claim \ {c} : vol'[d] = vol[d]
  BY Zenon DEF Write, IInv, Shape
<1>4. ASSUME NEW n \in Migration, Settled(n) PROVE Settled(n)'
  <2>1. row[n].src \in Claim \ {c} /\ n \in Claim
    BY <1>2, <1>4 DEF Settled, IInv, Shape, RowShape, Claim
  <2> QED
    BY Zenon, <1>2, <1>3, <1>4, <2>1 DEF Settled
<1>5. ASSUME NEW n \in Migration PROVE Place(n)'
  <2>1. Place(n)
    BY Zenon DEF IInv
  <2>2. row[n].src \in Migration /\ Settled(row[n].src) => Settled(row[n].src)'
    BY <1>2, <1>4 DEF Settled
  <2>3. exec[n].pc \notin Emptied
    BY Zenon, <1>2, <2>1 DEF Place
  <2>4. Reverted(n)' <=> Reverted(n)
    BY Zenon, <1>2 DEF Reverted
  <2> QED
    BY ZenonT(40), <1>2, <2>1, <2>2, <2>3, <2>4 DEF Place, Emptied
<1>6. ASSUME NEW n \in Migration PROVE Others(n)' /\ Recorded(n)'
  <2>1. Others(n) /\ Recorded(n)
    BY Zenon DEF IInv
  <2> QED
    BY Zenon, <1>2, <2>1 DEF Others, Recorded
<1> QED
  BY Zenon, <1>1, <1>2, <1>4, <1>5, <1>6 DEF IInv, Single

\* After a restart nobody works on any migration.
LEMMA CrashStep ==
    ASSUME IInv, Crash
    PROVE  IInv'
<1>1. Shape'
  BY SystemShape DEF IInv
<1>2. UNCHANGED <<row, dep, tpl, pods, vol, pvc>> /\ \A n \in Migration : cleaner'[n] = "idle"
  BY DEF Crash, cluster
<1>3. ASSUME NEW n \in Migration PROVE exec'[n].pc = IF row[n].status = "absent" THEN "idle" ELSE "done"
  <2>1. exec[n] \in ExecShape
    BY DEF IInv, Shape
  <2> QED
    BY Zenon, <2>1 DEF Crash, ExecShape
<1>4. \A n \in Migration : Place(n)' /\ Others(n)'
  BY Zenon, <1>3 DEF Place, Others, Busy, Before, Emptied, Switched
<1>5. ASSUME NEW n \in Migration PROVE Recorded(n)'
  <2>1. Recorded(n)
    BY Zenon DEF IInv
  <2> QED
    BY Zenon, <1>2, <1>3, <2>1 DEF Recorded, Busy
<1> QED
  BY Zenon, <1>1, <1>2, <1>4, <1>5 DEF IInv, Single, Settled

-----------------------------------------------------------------------------
(* The invariant.                                                          *)

LEMMA InitInvariant == Init => IInv
<1> SUFFICES ASSUME Init PROVE IInv
  OBVIOUS
<1>1. Shape
  BY ZenonT(40), InitShape
<1>2. /\ dep.claim = Origin /\ pods = {} /\ Origin \notin Migration
      /\ \A n \in Migration : row[n].status = "absent" /\ exec[n].pc = "idle" /\ cleaner[n] = "idle" /\ pvc[n] = "absent"
  <2>1. dep.claim = Origin /\ pods = {} /\ Origin \notin Migration
    BY ConstantsAssumption DEF Init
  <2>2. ASSUME NEW n \in Migration PROVE row[n].status = "absent" /\ exec[n].pc = "idle"
    <3>1. row[n] = [status |-> "absent", src |-> Origin, srcNode |-> Home, node |-> Home,
                    replicas |-> 0, snapshot |-> [t \in Template |-> [claim |-> Origin, node |-> Home]]]
      BY Zenon DEF Init
    <3>2. exec[n] = [pc |-> "idle", ctx |-> "live", undo |-> "none", data |-> {}]
      BY Zenon DEF Init
    <3> QED
      BY <3>1, <3>2
  <2>3. ASSUME NEW n \in Migration PROVE cleaner[n] = "idle" /\ pvc[n] = "absent"
    BY <2>1 DEF Init, Claim
  <2> QED
    BY <2>1, <2>2, <2>3
<1>3. \A n \in Migration : Place(n) /\ Others(n)
  BY ZenonT(40), <1>2 DEF Place, Others, Busy, Before, Emptied, Switched
<1>4. \A n \in Migration : Recorded(n)
  BY Zenon, <1>2 DEF Recorded, Busy
<1>5. Single
  BY Zenon, <1>2 DEF Single, Unfinished
<1> QED
  BY <1>1, <1>2, <1>3, <1>4, <1>5 DEF IInv, Succeeded

LEMMA NextInvariant ==
    ASSUME MaxReleases = 0, IInv, OneAtATime, OneAtATime', [Next]_vars
    PROVE  IInv'
<1>1. CASE UNCHANGED vars
  <2>1. Shape'
    BY <1>1 DEF vars, IInv, Shape
  <2>2. \A n \in Migration : cleaner[n] # "idle" => row[n].status \in Succeeded
    BY Zenon DEF IInv, Recorded
  <2>3. UNCHANGED <<row, exec, dep, tpl, vol, pods, pvc, cleaner>>
    BY Zenon, <1>1 DEF vars
  <2> QED
    BY Zenon, <2>1, <2>2, <2>3, Aside
<1>2. ASSUME NEW m \in Migration, CreateHandler(m) PROVE IInv'
  BY Zenon, <1>2, FindStep, ReadStep, RejectStep, SavingSteps DEF CreateHandler
<1>3. ASSUME NEW m \in Migration, Goroutine(m) PROVE IInv'
  BY Zenon, <1>3, WaitingSteps, ResourceSteps, ScaleSteps, FallingSteps, TemplateSteps, CopyBeginStep, DropSteps,
     RestoringSteps, SavingSteps, CopyEndStep, ReplaceClaimStep, RestoreClaimStep DEF Goroutine
<1>4. ASSUME NEW m \in Migration, Deadline(m) \/ Cleanup(m) \/ BindClaim(m) PROVE IInv'
  BY Zenon, <1>4, AsideSteps, CleanupSaveStep DEF Cleanup
<1>5. ASSUME NEW c \in Claim, DeleteCheck(c) \/ DeleteClaim(c) \/ ReclaimClaim(c) \/ StopPod(c) \/ Write(c) PROVE IInv'
  BY <1>5, ClaimSteps, WriteStep
<1>6. ASSUME NEW t \in Template, DeployRelease(t) PROVE IInv'
  <2>1. used.releases \in 0..MaxReleases
    BY DEF IInv, Shape, UsedShape
  <2> QED
    BY <1>6, <2>1 DEF DeployRelease
<1> QED
  BY Zenon, <1>1, <1>2, <1>3, <1>4, <1>5, <1>6, StartPodStep, CrashStep DEF Next

\* The invariant holds throughout migrations that do not overlap.
THEOREM Invariance ==
    ASSUME MaxReleases = 0
    PROVE  Spec /\ []OneAtATime => []IInv
<1>1. IInv /\ OneAtATime /\ OneAtATime' /\ [Next]_vars => IInv'
  BY NextInvariant
<1> QED
  BY <1>1, InitInvariant, PTL DEF Spec

-----------------------------------------------------------------------------
(* What follows from it.                                                   *)

\* No write is lost: once the Deployment uses the target, or the migration has
\* succeeded, the target volume holds every write made to the source volume
\* (streamPVCData copies while no pod of the source runs).
THEOREM Copied ==
    ASSUME MaxReleases = 0
    PROVE  Spec /\ []OneAtATime => []CopyComplete
<1>1. IInv => CopyComplete
  BY DEF IInv, CopyComplete, Settled, Succeeded
<1> QED
  BY <1>1, Invariance, PTL

\* The create handler admits one unfinished migration per source claim, across
\* failures, restarts and cleanups of earlier ones.
THEOREM Exclusive ==
    ASSUME MaxReleases = 0
    PROVE  Spec /\ []OneAtATime => []OneActiveMigration
<1>1. ASSUME IInv PROVE OneActiveMigration
  <2>1. \A c \in Claim : \A m \in Active(c) : m \in Migration /\ row[m].status \in Unfinished /\ row[m].src = c
    BY Zenon, <1>1 DEF Active, Unfinished, IInv, Shape, RowShape
  <2> QED
    BY <1>1, <2>1 DEF OneActiveMigration, IInv, Single
<1> QED
  BY <1>1, Invariance, PTL

\* Who gives a record its final status.
LEMMA FinalStatus ==
    ASSUME Shape, Next, NEW m \in Migration, row'[m].status # row[m].status
    PROVE  /\ row'[m].status = "failed" => At(m, "save_failed") /\ UNCHANGED <<dep, tpl>>
           /\ row'[m].status = "cleanup_pending" => At(m, "save_cleanup") /\ UNCHANGED <<dep, tpl>>
<1>1. row[m] \in RowShape /\ row \in [Migration -> RowShape]
  BY Zenon DEF Shape
<1>2. ASSUME NEW n \in Migration, NEW status, NEW pc, SaveStatus(n, status, pc) PROVE n = m /\ row'[m].status = status /\ UNCHANGED <<dep, tpl>>
  BY <1>1, <1>2 DEF SaveStatus, RowShape, cluster
<1>3. CASE \E n \in Migration : CreateHandler(n)
  <2>1. PICK n \in Migration : CreateHandler(n)
    BY Zenon, <1>3
  <2>2. CASE InsertMigration(n) \/ StartMigration(n)
    BY <1>2, <2>2 DEF InsertMigration, StartMigration
  <2>3. CASE RejectMigration(n)
    BY <2>3 DEF RejectMigration
  <2>4. CASE \E c \in Claim : FindActiveMigration(n, c)
    BY <1>1, <2>4 DEF FindActiveMigration, RowShape
  <2>5. CASE \E k \in Node : ReadSource(n, k)
    BY <1>1, <2>5 DEF ReadSource, RowShape
  <2> QED
    BY Zenon, <2>1, <2>2, <2>3, <2>4, <2>5 DEF CreateHandler
<1>4. CASE \E n \in Migration : Goroutine(n)
  <2>1. PICK n \in Migration : Goroutine(n)
    BY Zenon, <1>4
  <2>2. CASE \/ SavePreflight(n) \/ SaveProvisioning(n) \/ SaveStopping(n) \/ SaveCopying(n) \/ SaveCutover(n) \/ SaveWaiting(n)
             \/ SaveCleanupPending(n) \/ SaveFailed(n)
    BY SMTT(30), <1>2, <2>2 DEF SavePreflight, SaveProvisioning, SaveStopping, SaveCopying, SaveCutover, SaveWaiting, SaveCleanupPending, SaveFailed
  <2>3. CASE \/ EnvironmentMissing(n) \/ Preflight(n) \/ CreateTarget(n) \/ CreateBindingPod(n) \/ WaitBound(n)
             \/ CheckTargetPath(n) \/ ScaleDown(n) \/ WaitStopped(n) \/ CopyBegin(n) \/ CopyEnd(n) \/ DeleteBindingPod(n)
    BY Zenon, <2>3 DEF EnvironmentMissing, Preflight, CreateTarget, CreateBindingPod, WaitBound, CheckTargetPath, ScaleDown,
       WaitStopped, CopyBegin, CopyEnd, DeleteBindingPod
  <2>4. CASE \/ ReplaceClaim(n) \/ ReplaceTemplates(n) \/ ScaleUp(n) \/ WaitReady(n) \/ DropBindingPod(n) \/ DropTarget(n)
             \/ RestoreClaim(n) \/ SkipRestore(n) \/ RestoreReplicas(n) \/ RestoreTemplates(n)
    BY Zenon, <2>4 DEF ReplaceClaim, ReplaceTemplates, ScaleUp, WaitReady, DropBindingPod, DropTarget, RestoreClaim, SkipRestore,
       RestoreReplicas, RestoreTemplates
  <2> QED
    BY Zenon, <2>1, <2>2, <2>3, <2>4 DEF Goroutine
<1>5. CASE \E n \in Migration : Deadline(n) \/ Cleanup(n) \/ BindClaim(n)
  BY <1>1, <1>5 DEF Deadline, Cleanup, CleanupCheck, CleanupDelete, CleanupSave, BindClaim, RowShape
<1>6. CASE \/ \E c \in Claim : DeleteCheck(c) \/ DeleteClaim(c) \/ ReclaimClaim(c) \/ StopPod(c) \/ Write(c)
           \/ \E t \in Template : DeployRelease(t)
           \/ StartPod
           \/ Crash
  BY Zenon, <1>6 DEF DeleteCheck, DeleteClaim, ReclaimClaim, StopPod, Write, DeployRelease, StartPod, Crash
<1> QED
  BY Zenon, <1>3, <1>4, <1>5, <1>6 DEF Next

\* A migration that is recorded as failed, and whose undo was not cut short, has
\* left Deployment, replicas and templates as they were when it was created; one
\* that is recorded as successful has moved them all (failMigration and the
\* cut-over). A scale-down that takes effect while its reply is lost is not undone:
\* "lost" is left out.
THEOREM Outcome ==
    ASSUME MaxReleases = 0, "lost" \notin Faults
    PROVE  Spec /\ []OneAtATime => MovedOrRestored
<1> DEFINE A == \A m \in Migration :
           /\ row[m].status # "failed" /\ row'[m].status = "failed" /\ exec[m].undo # "broken" =>
                 /\ dep.claim = row[m].src /\ dep.replicas = row[m].replicas
                 /\ tpl = row[m].snapshot
           /\ row[m].status # "cleanup_pending" /\ row'[m].status = "cleanup_pending" =>
                 /\ dep = [claim |-> m, node |-> row[m].node, replicas |-> row[m].replicas]
                 /\ \A t \in Template :
                       row[m].snapshot[t].claim = row[m].src => tpl[t] = [claim |-> m, node |-> row[m].node]
<1>1. IInv /\ [Next]_vars => [A]_vars
  <2> SUFFICES ASSUME IInv, Next, NEW m \in Migration
               PROVE /\ row[m].status # "failed" /\ row'[m].status = "failed" /\ exec[m].undo # "broken" =>
                           dep.claim = row[m].src /\ dep.replicas = row[m].replicas /\ tpl = row[m].snapshot
                     /\ row[m].status # "cleanup_pending" /\ row'[m].status = "cleanup_pending" =>
                           /\ dep = [claim |-> m, node |-> row[m].node, replicas |-> row[m].replicas]
                           /\ \A t \in Template :
                                 row[m].snapshot[t].claim = row[m].src => tpl[t] = [claim |-> m, node |-> row[m].node]
    OBVIOUS
  <2>1. Place(m) /\ Shape /\ dep \in DepShape
    BY Zenon DEF IInv, Shape
  <2>2. row[m].status # "failed" /\ row'[m].status = "failed" => exec[m].pc = "save_failed"
    BY Zenon, <2>1, FinalStatus DEF At
  <2>3. row[m].status # "cleanup_pending" /\ row'[m].status = "cleanup_pending" => exec[m].pc = "save_cleanup"
    BY <2>1, FinalStatus DEF At
  <2>4. ASSUME exec[m].pc = "save_failed", exec[m].undo # "broken"
        PROVE  dep.claim = row[m].src /\ dep.replicas = row[m].replicas /\ tpl = row[m].snapshot
    BY Zenon, <2>1, <2>4 DEF Place, Reverted
  <2>5. ASSUME exec[m].pc = "save_cleanup"
        PROVE  /\ dep = [claim |-> m, node |-> row[m].node, replicas |-> row[m].replicas]
               /\ \A t \in Template : row[m].snapshot[t].claim = row[m].src => tpl[t] = [claim |-> m, node |-> row[m].node]
    <3>1. dep.claim = m /\ dep.node = row[m].node /\ dep.replicas = row[m].replicas
      BY Zenon, <2>1, <2>5 DEF Place, Switched
    <3>2. dep = [claim |-> m, node |-> row[m].node, replicas |-> row[m].replicas]
      BY Zenon, <2>1, <3>1 DEF DepShape
    <3> QED
      BY Zenon, <2>1, <2>5, <3>2 DEF Place, Switched
  <2> QED
    BY ZenonT(40), <2>2, <2>3, <2>4, <2>5
<1> QED
  BY <1>1, Invariance, PTL DEF Spec, MovedOrRestored
=============================================================================
