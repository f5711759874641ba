---------------------------- MODULE VolumeTasks -----------------------------
(***************************************************************************)
(* The tasks that overwrite or copy the data of one local volume: the      *)
(* import of a host directory, the backup to another server, and the       *)
(* restore of a backup.  Each is a request followed by a goroutine with a  *)
(* deadline of two hours; nothing serialises two of them.                  *)
(*                                                                         *)
(* One Deployment mounts the volume.  Contents are sets of files.          *)
(***************************************************************************)
EXTENDS Integers, Sequences

CONSTANTS
    Import,         \* rows of host_directory_pvc_imports
    Backup,         \* rows of persistent_volume_backups
    Restore,        \* requests to restore a backup
    Source,         \* files the host directory may hold
    Initial,        \* those it holds at first
    MaxWrites,      \* files the application writes
    MaxTrouble      \* failed calls and saves, expired deadlines and crashes

Task == Import \union Backup \union Restore
File == Source \union 1..MaxWrites

ASSUME ConstantsAssumption ==
    /\ Import \intersect Backup = {} /\ Restore \intersect (Import \union Backup) = {}
    /\ Initial \subseteq Source /\ Source \intersect (1..MaxWrites) = {}
    /\ {MaxWrites, MaxTrouble} \subseteq Nat

VARIABLES
    imp,        \* import records
    bak,        \* backup records: status, restore status
    task,       \* the request, then the goroutine, of each task
    dep,        \* replicas of the Deployment
    pods,       \* whether its pods run
    vol,        \* contents of the volume
    dir,        \* contents of the host directory
    archive,    \* contents of an import's archive of the volume, of a backup
    writes,     \* files written by the application
    mixed,      \* history: tasks during which another one ran
    trouble     \* what went wrong so far: "call", "save", "deadline", "crash"

vars == <<imp, bak, task, dep, pods, vol, dir, archive, writes, mixed, trouble>>
cluster == <<dep, pods>>
data == <<vol, dir, archive, writes>>

NoReplicas == 2     \* the nil map of replicas
Finished == {"succeeded", "failed"}
Requesting == {"idle", "insert", "save_paths", "save_restoring"}
Active == {t \in Task : task[t].pc \notin Requesting \union {"done"}}

New(t) == [pc |-> "idle", ctx |-> "live", replicas |-> NoReplicas, undo |-> "none", of |-> t, seen |-> {}, sum |-> {}]
Ended(t) == [New(t) EXCEPT !.pc = "done"]

Init ==
    /\ imp = [i \in Import |-> [status |-> "absent", confirmed |-> FALSE, verified |-> FALSE, deleted |-> FALSE]]
    /\ bak = [b \in Backup |-> [status |-> "absent", restore |-> ""]]
    /\ task = [t \in Task |-> New(t)]
    /\ dep = 1 /\ pods = TRUE
    /\ vol = {} /\ dir = Initial
    /\ archive = [t \in Import \union Backup |-> {}]
    /\ writes = 0
    /\ mixed = {}
    /\ trouble = <<>>

-----------------------------------------------------------------------------
(* Calls succeed or fail; with an expired context they all fail.           *)

At(t, pc) == task[t].pc = pc
\* A goroutine that ends takes its variables with it.
Goto(t, pc) == task' = [task EXCEPT ![t] = IF pc = "done" THEN Ended(t) ELSE [@ EXCEPT !.pc = pc]]
Result == {"ok", "error"}
Trouble(kind) == Len(trouble) < MaxTrouble /\ trouble' = Append(trouble, kind)
WriteCost(w) == IF w = "ok" THEN UNCHANGED trouble ELSE Trouble("save")
CallCost(t, r) ==
    IF task[t].ctx = "expired" THEN r = "error" /\ UNCHANGED trouble
    ELSE IF r = "ok" THEN UNCHANGED trouble ELSE Trouble("call")

\* Where a failing import continues: its data is rolled back, the replicas are
\* restored, or the failure is just recorded, also when the workload was not
\* stopped in time.
RollsBack == {"stream", "sum_source", "sum_target"}
RestoresReplicas == {"archive_source", "archive_target", "clear", "scale_up", "wait_ready"}
Failing(i) ==
    task' = [task EXCEPT ![i].pc = IF @ \in RollsBack THEN "rollback"
                                   ELSE IF @ \in RestoresReplicas THEN "restore_replicas" ELSE "save_failed",
                         ![i].undo = IF task[i].pc \in RollsBack \union RestoresReplicas THEN "restore" ELSE "record"]
\* A failing restore scales up again only once it has begun to clear the volume.
FailingRestore(x) ==
    task' = [task EXCEPT ![x].pc = IF @ \in {"clear", "stream"} THEN "restore_replicas" ELSE "save_failed",
                         ![x].undo = IF task[x].pc \in {"clear", "stream"} THEN "restore" ELSE "record"]
Fails(t) == IF t \in Import THEN Failing(t) ELSE FailingRestore(t)
Continue(t, r, pc) == IF r = "ok" THEN Goto(t, pc) ELSE Fails(t)

\* A goroutine starts; from now on it and the ones under way run side by side.
Started(t) == mixed' = IF Active = {} THEN mixed ELSE mixed \union Active \union {t}

-----------------------------------------------------------------------------
(* Requests.                                                               *)

\* CreateHostDirectoryPVCImport: no unfinished import of the claim.
RequestImport(i, confirmed) ==
    /\ At(i, "idle")
    /\ \A j \in Import : imp[j].status \in Finished \union {"absent"}
    /\ imp' = [imp EXCEPT ![i].confirmed = confirmed]
    /\ Goto(i, "insert")
    /\ UNCHANGED <<bak, cluster, data, mixed, trouble>>

SaveImport(i, status, w) == imp' = IF w = "ok" THEN [imp EXCEPT ![i].status = status] ELSE imp

InsertImport(i) ==
    /\ At(i, "insert")
    /\ \E w \in Result : WriteCost(w) /\ SaveImport(i, "pending", w) /\ Goto(i, IF w = "ok" THEN "save_paths" ELSE "done")
    /\ UNCHANGED <<bak, cluster, data, mixed>>

\* The archive paths are stored by a second write, then the goroutine starts.
StartImport(i) ==
    /\ At(i, "save_paths")
    /\ \E w \in Result :
        /\ WriteCost(w)
        /\ Goto(i, IF w = "ok" THEN "save_preflight" ELSE "done")
        /\ IF w = "ok" THEN Started(i) ELSE UNCHANGED mixed
    /\ UNCHANGED <<imp, bak, cluster, data>>

CreateBackup(b) ==
    /\ At(b, "idle")
    /\ \E w \in Result :
        /\ WriteCost(w)
        /\ bak' = IF w = "ok" THEN [bak EXCEPT ![b].status = "accepted"] ELSE bak
        /\ Goto(b, IF w = "ok" THEN "save_running" ELSE "done")
        /\ IF w = "ok" THEN Started(b) ELSE UNCHANGED mixed
    /\ UNCHANGED <<imp, cluster, data>>

RequestRestore(x, b) ==
    /\ At(x, "idle")
    /\ bak[b].status = "succeeded" /\ bak[b].restore # "running"
    /\ task' = [task EXCEPT ![x].pc = "save_restoring", ![x].of = b]
    /\ UNCHANGED <<imp, bak, cluster, data, mixed, trouble>>

StartRestore(x) ==
    /\ At(x, "save_restoring")
    /\ \E w \in Result :
        /\ WriteCost(w)
        /\ bak' = IF w = "ok" THEN [bak EXCEPT ![task[x].of].restore = "running"] ELSE bak
        /\ Goto(x, IF w = "ok" THEN "locate" ELSE "done")
        /\ IF w = "ok" THEN Started(x) ELSE UNCHANGED mixed
    /\ UNCHANGED <<imp, cluster, data>>

-----------------------------------------------------------------------------
(* Steps of runHostDirectoryPVCImport and executePersistentVolumeRestore.  *)

\* A failed save of the progress ends the import there and then.
Progress(i, from, status, to) ==
    /\ At(i, from)
    /\ \E w \in Result : WriteCost(w) /\ SaveImport(i, status, w) /\ Goto(i, IF w = "ok" THEN to ELSE "done")
    /\ UNCHANGED <<bak, cluster, data, mixed>>

\* The volume is looked at before the workload is stopped.
Preflight(i) ==
    /\ At(i, "preflight")
    /\ \E r \in Result :
        /\ CallCost(i, r)
        /\ IF r = "ok" /\ (vol = {} \/ imp[i].confirmed)
           THEN task' = [task EXCEPT ![i].pc = "save_stopping", ![i].seen = vol]
           ELSE Fails(i)
    /\ UNCHANGED <<imp, bak, cluster, data, mixed>>

\* executePersistentVolumeRestore up to the list of Deployments.
Locate(x) ==
    /\ At(x, "locate")
    /\ \E r \in Result : CallCost(x, r) /\ Continue(x, r, "scale_down")
    /\ UNCHANGED <<imp, bak, cluster, data, mixed>>

ScaleDown(t) ==
    /\ At(t, "scale_down")
    /\ \E r \in Result :
        /\ CallCost(t, r)
        /\ IF r = "ok"
           THEN dep' = 0 /\ task' = [task EXCEPT ![t].pc = "wait_stopped", ![t].replicas = dep]
           ELSE UNCHANGED dep /\ Fails(t)
    /\ UNCHANGED <<imp, bak, pods, data, mixed>>

\* Mutant: the pods are not waited for.
DontWaitStopped(t) ==
    /\ At(t, "wait_stopped")
    /\ Goto(t, IF t \in Import THEN "save_backing_up" ELSE "clear")
    /\ UNCHANGED <<imp, bak, cluster, data, mixed, trouble>>
\* Ninety seconds for the pods to go away.
WaitStopped(t) ==
    /\ At(t, "wait_stopped")
    /\ \E r \in Result :
        /\ CallCost(t, r)
        /\ Continue(t, IF pods THEN "error" ELSE r, IF t \in Import THEN "save_backing_up" ELSE "clear")
    /\ UNCHANGED <<imp, bak, cluster, data, mixed>>

\* The one save of an import's progress whose error is ignored.
SaveBackingUp(i) ==
    /\ At(i, "save_backing_up")
    /\ \E w \in Result : WriteCost(w) /\ SaveImport(i, "backing_up", w)
    /\ Goto(i, "archive_source")
    /\ UNCHANGED <<bak, cluster, data, mixed>>

ArchiveSource(i) ==
    /\ At(i, "archive_source")
    /\ \E r \in Result : CallCost(i, r) /\ Continue(i, r, IF task[i].seen # {} THEN "archive_target" ELSE "clear")
    /\ UNCHANGED <<imp, bak, cluster, data, mixed>>

\* Mutant: the data to be replaced is not archived.
SkipArchive(i) ==
    /\ At(i, "archive_target")
    /\ Goto(i, "clear")
    /\ UNCHANGED <<imp, bak, cluster, data, mixed, trouble>>
ArchiveTarget(i) ==
    /\ At(i, "archive_target")
    /\ \E r \in Result :
        /\ CallCost(i, r)
        /\ archive' = IF r = "ok" THEN [archive EXCEPT ![i] = vol] ELSE archive
        /\ Continue(i, r, "clear")
    /\ UNCHANGED <<imp, bak, cluster, vol, dir, writes, mixed>>

\* Mutant: the restore writes over what the volume holds.
ClearImportOnly(t) ==
    /\ At(t, "clear")
    /\ vol' = IF t \in Import THEN {} ELSE vol
    /\ Goto(t, IF t \in Import THEN "save_copying" ELSE "stream")
    /\ UNCHANGED <<imp, bak, cluster, dir, archive, writes, mixed, trouble>>
\* A command that fails or is cut off has removed some of the files.
Clear(t) ==
    /\ At(t, "clear")
    /\ \E r \in Result :
        /\ CallCost(t, r)
        /\ vol' \in IF r = "ok" THEN {{}} ELSE SUBSET vol
        /\ Continue(t, r, IF t \in Import THEN "save_copying" ELSE "stream")
    /\ UNCHANGED <<imp, bak, cluster, dir, archive, writes, mixed>>

\* streamPVCData: one tar process feeds another.
Stream(t) ==
    /\ At(t, "stream")
    /\ LET from == IF t \in Import THEN dir ELSE archive[task[t].of] IN
       \E r \in Result :
        /\ CallCost(t, r)
        /\ \E part \in IF r = "ok" THEN {from} ELSE SUBSET from : vol' = vol \union part
        /\ Continue(t, r, IF t \in Import THEN "save_verifying" ELSE "scale_up")
    /\ UNCHANGED <<imp, bak, cluster, dir, archive, writes, mixed>>

SumSource(i) ==
    /\ At(i, "sum_source")
    /\ \E r \in Result :
        /\ CallCost(i, r)
        /\ IF r = "ok" THEN task' = [task EXCEPT ![i].pc = "sum_target", ![i].sum = dir] ELSE Fails(i)
    /\ UNCHANGED <<imp, bak, cluster, data, mixed>>

SumTarget(i) ==
    /\ At(i, "sum_target")
    /\ \E r \in Result : CallCost(i, r) /\ Continue(i, IF vol = task[i].sum THEN r ELSE "error", "save_verified")
    /\ UNCHANGED <<imp, bak, cluster, data, mixed>>

SaveVerified(i) ==
    /\ At(i, "save_verified")
    /\ \E w \in Result :
        /\ WriteCost(w)
        /\ imp' = IF w = "ok" THEN [imp EXCEPT ![i].status = "restoring_workload", ![i].verified = TRUE] ELSE imp
        /\ Goto(i, IF w = "ok" THEN "scale_up" ELSE "done")
    /\ UNCHANGED <<bak, cluster, data, mixed>>

\* Mutant: a finished task leaves the workload stopped.
ScaleUpForgotten(t) ==
    /\ At(t, "scale_up")
    /\ Goto(t, IF t \in Import THEN "wait_ready" ELSE "save_succeeded")
    /\ UNCHANGED <<imp, bak, cluster, data, mixed, trouble>>
\* A restore ignores the error of its call.
ScaleUp(t) ==
    /\ At(t, "scale_up")
    /\ \E r \in Result :
        /\ CallCost(t, r)
        /\ dep' = IF r = "ok" THEN task[t].replicas ELSE dep
        /\ IF t \in Import THEN Continue(t, r, IF task[t].replicas > 0 THEN "wait_ready" ELSE "save_succeeded")
           ELSE task' = [task EXCEPT ![t].pc = "save_succeeded", ![t].undo = IF r = "ok" THEN @ ELSE "broken"]
    /\ UNCHANGED <<imp, bak, pods, data, mixed>>

\* Mutant: the wait for an available replica has no end.
WaitReadyForever(i) ==
    /\ At(i, "wait_ready") /\ pods
    /\ Goto(i, "save_succeeded")
    /\ UNCHANGED <<imp, bak, cluster, data, mixed, trouble>>
\* Two minutes for an available replica.
WaitReady(i) ==
    /\ At(i, "wait_ready")
    /\ (pods /\ task[i].ctx = "live" /\ Goto(i, "save_succeeded")) \/ Fails(i)
    /\ UNCHANGED <<imp, bak, cluster, data, mixed, trouble>>

\* rollbackHostDirectoryImportTarget does nothing without an archive.
Rollback(i) ==
    /\ At(i, "rollback")
    /\ IF task[i].seen = {} THEN UNCHANGED <<vol, trouble>>
       ELSE \E r \in Result :
            /\ CallCost(i, r)
            /\ vol' \in IF r = "ok" THEN {archive[i]} ELSE (SUBSET vol) \union (SUBSET archive[i])
    /\ Goto(i, "restore_replicas")
    /\ UNCHANGED <<imp, bak, cluster, dir, archive, writes, mixed>>

\* Errors are ignored here; an import also gives up when it cannot read the
\* environment.
RestoreReplicas(t) ==
    /\ At(t, "restore_replicas")
    /\ \/ \E r \in Result :
            /\ CallCost(t, r)
            /\ dep' = IF r = "ok" THEN task[t].replicas ELSE dep
            /\ task' = [task EXCEPT ![t].pc = "save_failed", ![t].undo = IF r = "ok" THEN @ ELSE "broken"]
       \/ /\ t \in Import
          /\ WriteCost("error")
          /\ task' = [task EXCEPT ![t].pc = "save_failed", ![t].undo = "broken"]
          /\ UNCHANGED dep
    /\ UNCHANGED <<imp, bak, pods, data, mixed>>

\* The last save, whose error is ignored.
Finish(t, status) ==
    /\ At(t, IF status = "succeeded" THEN "save_succeeded" ELSE "save_failed")
    /\ \E w \in Result :
        /\ WriteCost(w)
        /\ IF t \in Import THEN SaveImport(t, status, w) /\ UNCHANGED bak
           ELSE UNCHANGED imp /\ bak' = IF w = "ok" THEN [bak EXCEPT ![task[t].of].restore = status] ELSE bak
    /\ Goto(t, "done")
    /\ UNCHANGED <<cluster, data, mixed>>

ImportStep(i) ==
    \/ Progress(i, "save_preflight", "preflight", "preflight") \/ Preflight(i)
    \/ Progress(i, "save_stopping", "stopping_workload", "scale_down") \/ SaveBackingUp(i)
    \/ ArchiveSource(i) \/ ArchiveTarget(i)
    \/ Progress(i, "save_copying", "copying", "stream")
    \/ Progress(i, "save_verifying", "verifying", "sum_source")
    \/ SumSource(i) \/ SumTarget(i) \/ SaveVerified(i) \/ WaitReady(i) \/ Rollback(i)

CommonStep(t) ==
    \/ ScaleDown(t) \/ WaitStopped(t) \/ Clear(t) \/ Stream(t) \/ ScaleUp(t) \/ RestoreReplicas(t)
    \/ \E status \in Finished : Finish(t, status)

-----------------------------------------------------------------------------
(* executePersistentVolumeBackup copies the volume while the application   *)
(* writes to it; its saves ignore errors.                                  *)

SaveBackup(b, from, status, to) ==
    /\ At(b, from)
    /\ \E w \in Result : WriteCost(w) /\ bak' = IF w = "ok" THEN [bak EXCEPT ![b].status = status] ELSE bak
    /\ Goto(b, to)
    /\ UNCHANGED <<imp, cluster, data, mixed>>

CopyBegin(b) ==
    /\ At(b, "copy_begin")
    /\ \E r \in Result :
        /\ CallCost(b, r)
        /\ task' = [task EXCEPT ![b].pc = IF r = "ok" THEN "copy_end" ELSE "save_failed", ![b].seen = vol]
    /\ UNCHANGED <<imp, bak, cluster, data, mixed>>

\* Mutant: the exit status of the copy is ignored.
CopyEndUnchecked(b) ==
    /\ At(b, "copy_end")
    /\ \E copy \in SUBSET (task[b].seen \union vol) : archive' = [archive EXCEPT ![b] = copy]
    /\ Goto(b, "save_succeeded")
    /\ UNCHANGED <<imp, bak, cluster, vol, dir, writes, mixed, trouble>>
\* A file that appears or goes away during the copy may or may not be in it.
CopyEnd(b) ==
    /\ At(b, "copy_end")
    /\ \E r \in Result :
        /\ CallCost(b, r)
        /\ \E copy \in SUBSET (task[b].seen \union vol) :
            /\ r = "ok" => task[b].seen \intersect vol \subseteq copy
            /\ archive' = [archive EXCEPT ![b] = copy]
        /\ Goto(b, IF r = "ok" THEN "save_succeeded" ELSE "save_failed")
    /\ UNCHANGED <<imp, bak, cluster, vol, dir, writes, mixed>>

BackupStep(b) ==
    \/ SaveBackup(b, "save_running", "running", "copy_begin") \/ CopyBegin(b) \/ CopyEnd(b)
    \/ SaveBackup(b, "save_succeeded", "succeeded", "done") \/ SaveBackup(b, "save_failed", "failed", "done")

Goroutine(t) ==
    \/ t \in Import /\ (ImportStep(t) \/ CommonStep(t))
    \/ t \in Restore /\ (Locate(t) \/ CommonStep(t))
    \/ t \in Backup /\ BackupStep(t)

-----------------------------------------------------------------------------
\* DeleteHostDirectoryPVCImportBackup: the archives of a verified import go,
\* then the record says so.
DeleteArchive(i) ==
    /\ imp[i].status = "succeeded" /\ imp[i].verified /\ ~imp[i].deleted
    /\ archive' = [archive EXCEPT ![i] = {}]
    /\ \E w \in Result : WriteCost(w) /\ imp' = IF w = "ok" THEN [imp EXCEPT ![i].deleted = TRUE] ELSE imp
    /\ UNCHANGED <<bak, task, cluster, vol, dir, writes, mixed>>

Deadline(t) ==
    /\ t \in Active /\ task[t].ctx = "live"
    /\ Trouble("deadline")
    /\ task' = [task EXCEPT ![t].ctx = "expired"]
    /\ UNCHANGED <<imp, bak, cluster, data, mixed>>

\* Nothing resumes a task.
Crash ==
    /\ Trouble("crash")
    /\ task' = [t \in Task |-> IF At(t, "idle") THEN task[t] ELSE Ended(t)]
    /\ UNCHANGED <<imp, bak, cluster, data, mixed>>

\* The cluster and the application.
StartPod ==
    /\ dep > 0 /\ ~pods /\ pods' = TRUE
    /\ UNCHANGED <<imp, bak, task, dep, data, mixed, trouble>>
StopPod ==
    /\ pods /\ pods' = FALSE
    /\ UNCHANGED <<imp, bak, task, dep, data, mixed, trouble>>
AppWrite ==
    /\ pods /\ writes < MaxWrites
    /\ writes' = writes + 1 /\ vol' = vol \union {writes + 1}
    /\ UNCHANGED <<imp, bak, task, cluster, dir, archive, mixed, trouble>>
SourceChange ==
    /\ \E f \in Source \ dir : dir' = dir \union {f}
    /\ UNCHANGED <<imp, bak, task, cluster, vol, archive, writes, mixed, trouble>>

Next ==
    \/ \E i \in Import : (\E c \in BOOLEAN : RequestImport(i, c)) \/ InsertImport(i) \/ StartImport(i) \/ DeleteArchive(i)
    \/ \E b \in Backup : CreateBackup(b)
    \/ \E x \in Restore : (\E b \in Backup : RequestRestore(x, b)) \/ StartRestore(x)
    \/ \E t \in Task : Goroutine(t) \/ Deadline(t)
    \/ Crash \/ StartPod \/ StopPod \/ AppWrite \/ SourceChange

Spec == Init /\ [][Next]_vars
\* A request that was admitted is served, and every call of a goroutine carries
\* a timeout.
FairSpec ==
    /\ Spec
    /\ \A t \in Task : WF_vars(Goroutine(t))
    /\ \A i \in Import : WF_vars(InsertImport(i) \/ StartImport(i))

-----------------------------------------------------------------------------
ImportStatus == {"absent", "pending", "preflight", "stopping_workload", "backing_up", "copying", "verifying",
                 "restoring_workload"} \union Finished
TaskPc == Requesting \union RollsBack \union RestoresReplicas \union
    {"save_preflight", "preflight", "save_stopping", "scale_down", "wait_stopped", "save_backing_up", "save_copying",
     "save_verifying", "save_verified", "rollback", "restore_replicas", "save_succeeded", "save_failed", "locate",
     "save_running", "copy_begin", "copy_end", "done"}

\* Records, goroutines and volume are well formed.
TypeOK ==
    /\ imp \in [Import -> [status: ImportStatus, confirmed: BOOLEAN, verified: BOOLEAN, deleted: BOOLEAN]]
    /\ bak \in [Backup -> [status: {"absent", "accepted", "running"} \union Finished,
                           restore: {"", "running"} \union Finished]]
    /\ task \in [Task -> [pc: TaskPc, ctx: {"live", "expired"}, replicas: {0, 1, NoReplicas},
                          undo: {"none", "record", "restore", "broken"}, of: Task, seen: SUBSET File, sum: SUBSET File]]
    /\ dep \in {0, 1} /\ pods \in BOOLEAN
    /\ vol \subseteq File /\ dir \subseteq Source
    /\ archive \in [Import \union Backup -> SUBSET File]
    /\ writes \in 0..MaxWrites /\ mixed \subseteq Task
    /\ trouble \in Seq({"call", "save", "deadline", "crash"}) /\ Len(trouble) <= MaxTrouble

\* What an import saw on the volume before it cleared it is on the volume or in
\* its archive for as long as it runs, whatever step of it fails.
ImportKeepsData ==
    \A i \in Import \intersect Active : i \notin mixed => task[i].seen \subseteq vol \union archive[i]

\* No pod of the application runs from the moment a task has seen them all gone
\* until it scales the Deployment up again, so nothing is written to the volume
\* while it is archived, cleared, filled and verified.
Copying == {"save_backing_up", "archive_source", "archive_target", "clear", "save_copying", "stream", "save_verifying",
            "sum_source", "sum_target", "save_verified", "scale_up", "rollback"}
QuietVolume ==
    \A t \in Active : t \notin mixed /\ task[t].pc \in Copying => dep = 0 /\ ~pods

\* What a task archives, clears, fills and verifies is a volume nobody writes to
\* (QuietVolume); the state is well-formed throughout.
CopiesQuiet == TypeOK /\ QuietVolume

\* A restore that goes on to start the workload has replaced the contents of the
\* volume by those of the backup, which stays succeeded.
RestoreExact ==
    \A x \in Restore \intersect Active :
        At(x, "scale_up") /\ x \notin mixed => vol = archive[task[x].of] /\ bak[task[x].of].status = "succeeded"

\* An import is recorded as verified only while the volume holds exactly the
\* files whose checksum was taken on the host, and a backup as succeeded only if
\* it has every file that was on the volume throughout the copy.
RecordedTruly ==
    [][/\ \A i \in Import : ~imp[i].verified /\ imp'[i].verified /\ i \notin mixed => vol = task[i].sum
       /\ \A b \in Backup : bak[b].status # "succeeded" /\ bak'[b].status = "succeeded" /\ b \notin mixed =>
             task[b].seen \subseteq archive[b]]_vars

\* A task that ends, other than by failing to stop the workload, leaves it with
\* the replicas it found, unless a call that restores them failed.
ReplicasRestored ==
    [][\A t \in Import \union Restore :
           /\ task[t].pc \in {"save_failed", "save_succeeded"} /\ task'[t].pc = "done"
           /\ t \notin mixed /\ task[t].undo \notin {"record", "broken"}
           => dep = task[t].replicas]_vars

\* Every import that was recorded ends with a final status, unless a database
\* call fails or the process crashes.
ImportEnds ==
    \A i \in Import :
        imp[i].status = "pending" ~> \/ imp[i].status \in Finished
                                     \/ \E k \in DOMAIN trouble : trouble[k] \in {"save", "crash"}
=============================================================================
