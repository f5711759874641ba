------------------------- MODULE VolumeTasksProofs --------------------------
(***************************************************************************)
(* Proofs about VolumeTasks: what an import, a backup or a restore of a    *)
(* volume guarantees while no other one runs beside it, for any number of  *)
(* tasks, files, writes and failures.                                      *)
(*                                                                         *)
(* None of the properties is inductive.  Safe says what a task that runs   *)
(* alone may rely on at each of its places: that the workload is stopped,  *)
(* where the data it replaces is, and what the volume holds.  Alone says   *)
(* that a task which is not recorded in mixed is the only one under way,   *)
(* so no other task takes these facts away; Owned and Recorded hold for    *)
(* every task, alone or not.                                               *)
(***************************************************************************)
EXTENDS VolumeTasks, TLAPS

-----------------------------------------------------------------------------
(* The inductive invariant.                                                *)

TaskShape == [pc: TaskPc, ctx: {"live", "expired"}, replicas: {0, 1, NoReplicas},
              undo: {"none", "record", "restore", "broken"}, of: Task, seen: SUBSET File, sum: SUBSET File]
ImportShape == [status: ImportStatus, confirmed: BOOLEAN, verified: BOOLEAN, deleted: BOOLEAN]
BackupShape == [status: {"absent", "accepted", "running"} \union Finished, restore: {"", "running"} \union Finished]
TroubleKind == {"call", "save", "deadline", "crash"}

\* The places of the three kinds of task.
RestorePc == {"idle", "save_restoring", "locate", "scale_down", "wait_stopped", "clear", "stream", "scale_up",
              "restore_replicas", "save_succeeded", "save_failed", "done"}
BackupPc == {"idle", "save_running", "copy_begin", "copy_end", "save_succeeded", "save_failed", "done"}
ImportPc == TaskPc \ {"save_restoring", "locate", "save_running", "copy_begin", "copy_end"}

\* The places after the Deployment was scaled down: its replicas are known.
Scaled == Copying \union {"wait_stopped", "wait_ready", "restore_replicas", "save_succeeded"}
\* The places of an import with the archive of what it found behind it.
Archived == {"clear", "save_copying", "stream", "save_verifying", "sum_source", "sum_target", "save_verified",
             "scale_up", "rollback", "wait_ready", "save_succeeded"}

\* What holds of a task k under the name t whatever else runs.
Owned(t, k) ==
    /\ t \in Import => k.pc \in ImportPc
    /\ t \in Restore => k.pc \in RestorePc /\ (k.pc \notin {"idle", "done"} => k.of \in Backup)
    /\ t \in Backup => k.pc \in BackupPc
    /\ t \notin Backup /\ k.pc \in Scaled => k.replicas \in {0, 1}
    /\ t \notin Backup /\ k.pc \in {"rollback", "restore_replicas", "save_failed"} => k.undo # "none"

\* What a task may rely on that runs alone: d replicas, p whether pods run, v
\* the contents of the volume and a of the archives.
Safe(t, k, d, p, v, a) ==
    /\ k.pc = "wait_stopped" => d = 0
    /\ k.pc \in Copying => d = 0 /\ ~p
    /\ t \in Import \union Restore =>
         /\ k.pc = "wait_ready" => d = k.replicas
         /\ k.pc = "save_succeeded" /\ k.undo # "broken" => d = k.replicas
         /\ k.pc = "save_failed" /\ k.undo = "restore" => d = k.replicas
    /\ t \in Import =>
         /\ k.pc \in Archived => k.seen \subseteq a[t]
         /\ k.seen \subseteq v \/ k.seen \subseteq a[t]
         /\ k.pc \in {"save_preflight", "preflight", "save_stopping", "scale_down", "wait_stopped", "save_backing_up",
                      "archive_source", "archive_target"} => k.seen \subseteq v
         /\ k.pc = "save_verified" => v = k.sum
    /\ t \in Restore =>
         /\ k.pc = "stream" => v = {}
         /\ k.pc = "scale_up" => v = a[k.of]
    /\ t \in Backup =>
         /\ k.pc = "copy_end" => k.seen \subseteq v
         /\ k.pc = "save_succeeded" => k.seen \subseteq a[t]

DataOK ==
    /\ dep \in {0, 1} /\ pods \in BOOLEAN
    /\ vol \subseteq File /\ dir \subseteq Source
    /\ archive \in [Import \union Backup -> SUBSET File]
    /\ writes \in 0..MaxWrites
    /\ trouble \in Seq(TroubleKind) /\ Len(trouble) <= MaxTrouble

RowsOK ==
    /\ imp \in [Import -> ImportShape]
    /\ bak \in [Backup -> BackupShape]

\* A final record belongs to a goroutine that has ended; the backup a restore
\* reads stays succeeded.
Recorded ==
    /\ \A i \in Import : imp[i].status \in Finished => task[i].pc = "done"
    /\ \A b \in Backup : bak[b].status = "succeeded" => task[b].pc = "done"
    /\ \A x \in Restore : task[x].pc \notin {"idle", "done"} => bak[task[x].of].status = "succeeded"

TasksOK ==
    /\ task \in [Task -> TaskShape]
    /\ mixed \subseteq Task
    /\ \A t \in Task : Owned(t, task[t])
    /\ \A i \in Import : task[i].pc \in Requesting => task[i].seen = {}

\* Two tasks that run at the same time are both recorded in mixed.
Alone == \A t, u \in Active : t # u => t \in mixed

AllSafe == \A t \in Active \ mixed : Safe(t, task[t], dep, pods, vol, archive)

IInv == DataOK /\ RowsOK /\ Recorded /\ TasksOK /\ Alone /\ AllSafe

-----------------------------------------------------------------------------
(* What every step of a goroutine has in common.                           *)

\* The calls and saves that go wrong are counted within the bound.
LEMMA Counted ==
    ASSUME DataOK, NEW kind \in TroubleKind, UNCHANGED trouble \/ Trouble(kind)
    PROVE  trouble' \in Seq(TroubleKind) /\ Len(trouble') <= MaxTrouble
<1>1. MaxTrouble \in Nat
  BY ConstantsAssumption
<1>2. trouble \in Seq(TroubleKind) /\ Len(trouble) \in Nat /\ Len(trouble) <= MaxTrouble
  BY DEF DataOK
<1>3. CASE UNCHANGED trouble
  BY <1>2, <1>3
<1>4. CASE Trouble(kind)
  BY <1>1, <1>2, <1>4 DEF Trouble
<1> QED
  BY <1>3, <1>4

\* So does the trouble a call or a save costs.
LEMMA Costs ==
    ASSUME DataOK
    PROVE  /\ \A w \in Result : WriteCost(w) => trouble' \in Seq(TroubleKind) /\ Len(trouble') <= MaxTrouble
           /\ \A t \in Task, r \in Result : CallCost(t, r) => trouble' \in Seq(TroubleKind) /\ Len(trouble') <= MaxTrouble
<1>1. "call" \in TroubleKind /\ "save" \in TroubleKind
  BY DEF TroubleKind
<1> QED
  BY <1>1, Counted DEF WriteCost, CallCost

\* The initial and the final record of a goroutine are well formed.
LEMMA Records ==
    ASSUME NEW t \in Task
    PROVE  /\ New(t) \in TaskShape /\ New(t).pc = "idle" /\ Owned(t, New(t))
           /\ Ended(t) \in TaskShape /\ Ended(t).pc = "done" /\ Owned(t, Ended(t))
<1>1. New(t) \in TaskShape /\ New(t).pc = "idle"
  BY DEF New, TaskShape, TaskPc, Requesting, NoReplicas
<1>2. Ended(t) \in TaskShape /\ Ended(t).pc = "done"
  BY <1>1 DEF Ended, TaskShape, TaskPc
<1>3. Owned(t, New(t))
  BY <1>1 DEF Owned, ImportPc, RestorePc, BackupPc, TaskPc, Requesting, Scaled, Copying
<1>4. Owned(t, Ended(t))
  BY <1>2 DEF Owned, ImportPc, RestorePc, BackupPc, TaskPc, Requesting, Scaled, Copying
<1> QED
  BY <1>1, <1>2, <1>3, <1>4

\* The records a step of task t may write: a final status only together with the
\* end of the goroutine; a succeeded backup stays one.
RowsKept(t, ends) ==
    /\ \A i \in Import : imp'[i].status \in Finished => imp[i].status \in Finished \/ (i = t /\ ends)
    /\ \A b \in Backup : bak[b].status = "succeeded" => bak'[b].status = "succeeded"
    /\ \A b \in Backup : bak'[b].status = "succeeded" => bak[b].status = "succeeded" \/ (b = t /\ ends)

\* A step of an active goroutine: only its own facts are at stake, for if
\* another one is active too both are recorded in mixed.
LEMMA Step ==
    ASSUME IInv, NEW t \in Task, t \in Active,
           NEW k \in TaskShape, k.pc \notin Requesting, Owned(t, k),
           task' = [task EXCEPT ![t] = k], mixed' = mixed,
           t \notin mixed /\ k.pc # "done" => Safe(t, k, dep', pods', vol', archive'),
           t \in Restore /\ k.pc # "done" => k.of = task[t].of,
           RowsKept(t, k.pc = "done")
    PROVE  Recorded' /\ TasksOK' /\ Alone' /\ AllSafe'
<1>1. task' \in [Task -> TaskShape] /\ task'[t] = k /\ \A u \in Task \ {t} : task'[u] = task[u]
  BY DEF IInv, TasksOK
<1>2. TasksOK'
  BY <1>1 DEF IInv, TasksOK, Task
<1>3. Active' \subseteq Active /\ (t \in Active' <=> k.pc # "done")
  BY <1>1 DEF Active
<1>4. Alone'
  BY <1>3 DEF IInv, Alone
<1>5. AllSafe'
  <2> SUFFICES ASSUME NEW u \in Active', u \notin mixed
               PROVE  Safe(u, task'[u], dep', pods', vol', archive')
    BY DEF AllSafe
  <2>1. u = t
    BY <1>3 DEF IInv, Alone
  <2> QED
    BY <2>1, <1>1, <1>3
<1>6. Recorded'
  <2>1. /\ t \in Import => imp[t].status \notin Finished
        /\ t \in Backup => bak[t].status # "succeeded"
    BY DEF IInv, Recorded, Active
  <2>2. \A i \in Import : imp'[i].status \in Finished => task'[i].pc = "done"
    BY <1>1, <2>1 DEF RowsKept, IInv, Recorded, Task
  <2>3. \A b \in Backup : bak'[b].status = "succeeded" => task'[b].pc = "done"
    BY Zenon, <1>1, <2>1 DEF RowsKept, IInv, Recorded, Task
  <2>4. \A x \in Restore : task'[x].pc \notin {"idle", "done"} => bak'[task'[x].of].status = "succeeded"
    <3> SUFFICES ASSUME NEW x \in Restore, task'[x].pc \notin {"idle", "done"}
                 PROVE  bak'[task'[x].of].status = "succeeded"
      OBVIOUS
    <3>1. task[x].pc \notin {"idle", "done"} /\ task'[x].of = task[x].of
      BY Zenon, <1>1 DEF Active, Requesting, Task
    <3>2. task[x].of \in Backup
      BY <3>1 DEF IInv, TasksOK, Owned, Task
    <3> QED
      BY <3>1, <3>2 DEF IInv, Recorded, RowsKept
  <2> QED
    BY <2>2, <2>3, <2>4 DEF Recorded
<1> QED
  BY <1>2, <1>4, <1>5, <1>6

\* The same for a step that only moves the goroutine on.
LEMMA GotoStep ==
    ASSUME IInv, NEW t \in Task, t \in Active,
           NEW pc \in TaskPc \ Requesting, Goto(t, pc), mixed' = mixed,
           pc # "done" => Owned(t, [task[t] EXCEPT !.pc = pc]),
           t \notin mixed /\ pc # "done" => Safe(t, [task[t] EXCEPT !.pc = pc], dep', pods', vol', archive'),
           RowsKept(t, pc = "done")
    PROVE  Recorded' /\ TasksOK' /\ Alone' /\ AllSafe'
<1> DEFINE k == [task[t] EXCEPT !.pc = pc]
<1>1. task[t] \in TaskShape
  BY DEF IInv, TasksOK
<1>2. CASE pc = "done"
  <2>1. task' = [task EXCEPT ![t] = Ended(t)]
    BY <1>2 DEF Goto
  <2>2. Ended(t) \in TaskShape /\ Ended(t).pc = "done" /\ Owned(t, Ended(t)) /\ "done" \notin Requesting
    BY Records DEF Requesting
  <2> QED
    BY Zenon, <1>2, <2>1, <2>2, Step
<1>3. CASE pc # "done"
  <2>1. task' = [task EXCEPT ![t] = k]
    BY <1>3 DEF Goto
  <2>2. k \in TaskShape /\ k.pc = pc /\ k.of = task[t].of
    BY <1>1 DEF TaskShape
  <2> HIDE DEF k
  <2> QED
    BY Zenon, <1>3, <2>1, <2>2, Step DEF k
<1> QED
  BY <1>2, <1>3

\* What the invariant says of one task.
LEMMA Facts ==
    ASSUME IInv, NEW t \in Task
    PROVE  /\ task[t] \in TaskShape /\ Owned(t, task[t])
           /\ t \in Active \ mixed => Safe(t, task[t], dep, pods, vol, archive)
           /\ t \in Active <=> task[t].pc \notin Requesting \union {"done"}
BY DEF IInv, TasksOK, AllSafe, Active

\* A step that writes no record, or only the progress of an import.
LEMMA RowsStay ==
    ASSUME RowsOK, NEW t \in Task, NEW e \in BOOLEAN,
           bak' = bak,
           \/ imp' = imp
           \/ \E i \in Import, status \in ImportStatus \ Finished, w \in Result : SaveImport(i, status, w)
    PROVE  RowsOK' /\ RowsKept(t, e)
<1>1. CASE imp' = imp
  BY <1>1 DEF RowsOK, RowsKept
<1>2. ASSUME NEW i \in Import, NEW status \in ImportStatus \ Finished, NEW w \in Result, SaveImport(i, status, w)
      PROVE  RowsOK' /\ RowsKept(t, e)
  <2>1. CASE w # "ok"
    BY <1>1, <1>2, <2>1 DEF SaveImport
  <2>2. CASE w = "ok"
    <3> DEFINE row == [imp[i] EXCEPT !.status = status]
    <3>1. row \in ImportShape /\ row.status = status
      BY DEF RowsOK, ImportShape
    <3>2. imp' = [imp EXCEPT ![i] = row]
      BY Zenon, <1>2, <2>2 DEF SaveImport
    <3> HIDE DEF row
    <3> QED
      BY <3>1, <3>2 DEF RowsOK, RowsKept
  <2> QED
    BY <2>1, <2>2
<1> QED
  BY <1>1, <1>2

\* Where a failing call of an import or a restore may occur.
Fallible == {"preflight", "locate", "scale_down", "wait_stopped", "archive_source", "archive_target", "clear", "stream",
             "sum_source", "sum_target", "scale_up", "wait_ready"}

\* failImport and the failure path of a restore: whichever call failed, what the
\* import found is still on the volume or in its archive.
LEMMA FailStep ==
    ASSUME IInv, NEW t \in Import \union Restore, task[t].pc \in Fallible, Fails(t),
           t \in Restore => task[t].pc # "scale_up",
           UNCHANGED <<mixed, dep, pods, archive, imp, bak>>,
           vol' = vol \/ task[t].pc \in {"clear", "stream"}
    PROVE  Recorded' /\ TasksOK' /\ Alone' /\ AllSafe' /\ RowsOK'
<1> DEFINE pc == IF t \in Import
                 THEN IF task[t].pc \in RollsBack THEN "rollback"
                      ELSE IF task[t].pc \in RestoresReplicas THEN "restore_replicas" ELSE "save_failed"
                 ELSE IF task[t].pc \in {"clear", "stream"} THEN "restore_replicas" ELSE "save_failed"
           undo == IF pc = "save_failed" THEN "record" ELSE "restore"
           k == [task[t] EXCEPT !.pc = pc, !.undo = undo]
<1>1. t \in Task /\ t \in Active /\ task[t] \in TaskShape /\ Owned(t, task[t])
  BY Zenon, Facts DEF Task, Fallible, Requesting
<1>2. t \notin mixed => Safe(t, task[t], dep, pods, vol, archive)
  BY <1>1, Facts
<1>3. pc \in {"rollback", "restore_replicas", "save_failed"} /\ undo \in {"record", "restore"}
  OBVIOUS
<1>4. task' = [task EXCEPT ![t] = k]
  BY Zenon, ConstantsAssumption DEF Fails, Failing, FailingRestore, RollsBack, RestoresReplicas
<1>5. /\ k \in TaskShape /\ k.pc = pc /\ k.undo = undo
      /\ k.of = task[t].of /\ k.seen = task[t].seen /\ k.replicas = task[t].replicas
  BY ZenonT(40), <1>1, <1>3 DEF TaskShape, TaskPc
<1>6. pc # "save_failed" => task[t].pc \in Scaled
  BY DEF RollsBack, RestoresReplicas, Scaled, Copying
<1>7. t \in Restore => task[t].of \in Backup /\ pc # "rollback"
  BY Zenon, <1>1, ConstantsAssumption DEF Owned, Fallible
<1>8. Owned(t, k)
  <2>1. t \notin Backup
    BY ConstantsAssumption
  <2>2. pc \in Scaled => pc # "save_failed"
    BY Zenon, <1>3 DEF Scaled, Copying
  <2>3. pc \in ImportPc /\ (pc # "rollback" => pc \in RestorePc)
    BY <1>3 DEF ImportPc, TaskPc, RestorePc
  <2>4. undo # "none"
    OBVIOUS
  <2> HIDE DEF k, pc, undo
  <2> QED
    BY <1>1, <1>5, <1>6, <1>7, <2>1, <2>2, <2>3, <2>4 DEF Owned
<1>9. t \notin mixed => Safe(t, k, dep', pods', vol', archive')
  <2> SUFFICES ASSUME t \notin mixed
               PROVE  Safe(t, k, dep, pods, vol', archive)
    OBVIOUS
  <2>1. Safe(t, task[t], dep, pods, vol, archive)
    BY Zenon, <1>2
  <2>2. t \notin Backup /\ (t \in Import => t \notin Restore)
    BY ConstantsAssumption
  <2>3. pc = "rollback" => t \in Import /\ task[t].pc \in RollsBack
    BY DEF RollsBack
  <2>4. t \in Import /\ task[t].pc \in {"clear", "stream"} => task[t].seen \subseteq archive[t]
    BY <2>1 DEF Safe, Archived
  <2>5. t \in Import => task[t].seen \subseteq vol' \/ task[t].seen \subseteq archive[t]
    BY Zenon, <2>1, <2>4 DEF Safe
  <2>6. pc = "rollback" => task[t].seen \subseteq archive[t] /\ dep = 0 /\ ~pods
    BY Zenon, <2>1, <2>3 DEF Safe, RollsBack, Archived, Copying
  <2>7. pc = "save_failed" => undo = "record"
    OBVIOUS
  <2> HIDE DEF k, pc, undo
  <2> QED
    BY Zenon, <1>3, <1>5, <2>2, <2>5, <2>6, <2>7 DEF Safe, Copying, Archived
<1>10. RowsOK' /\ RowsKept(t, FALSE)
  BY Zenon, <1>1, RowsStay DEF IInv
<1>11. k.pc \notin Requesting /\ k.pc # "done"
  BY <1>3, <1>5 DEF Requesting
<1> HIDE DEF k, pc, undo
<1> QED
  BY Zenon, <1>1, <1>4, <1>5, <1>8, <1>9, <1>10, <1>11, Step

-----------------------------------------------------------------------------
(* The steps of an import.                                                 *)

\* The saves of an import's progress, the ignored one included.
LEMMA ProgressKeeps ==
    ASSUME IInv, NEW i \in Import,
           \/ Progress(i, "save_preflight", "preflight", "preflight")
           \/ Progress(i, "save_stopping", "stopping_workload", "scale_down")
           \/ SaveBackingUp(i)
           \/ Progress(i, "save_copying", "copying", "stream")
           \/ Progress(i, "save_verifying", "verifying", "sum_source")
    PROVE  IInv'
<1>1. i \in Task /\ i \in Active
  BY Zenon, Facts DEF Task, Progress, SaveBackingUp, At, Requesting
<1>2. task[i] \in TaskShape /\ Owned(i, task[i]) /\ (i \notin mixed => Safe(i, task[i], dep, pods, vol, archive))
  BY <1>1, Facts
<1>3. i \notin Backup /\ i \notin Restore
  BY ConstantsAssumption
<1>4. UNCHANGED <<bak, dep, pods, vol, dir, archive, writes, mixed>>
  BY Zenon DEF Progress, SaveBackingUp, cluster, data
<1>5. DataOK'
  BY Zenon, <1>4, Costs DEF IInv, DataOK, Progress, SaveBackingUp
<1>6. PICK pc \in {"preflight", "scale_down", "archive_source", "stream", "sum_source", "done"} :
        /\ Goto(i, pc)
        /\ \/ pc = "preflight" /\ task[i].pc = "save_preflight"
           \/ pc = "scale_down" /\ task[i].pc = "save_stopping"
           \/ pc = "archive_source" /\ task[i].pc = "save_backing_up"
           \/ pc = "stream" /\ task[i].pc = "save_copying"
           \/ pc = "sum_source" /\ task[i].pc = "save_verifying"
           \/ pc = "done"
  BY DEF Progress, SaveBackingUp, At
<1>7. \E status \in ImportStatus \ Finished, w \in Result : SaveImport(i, status, w)
  <2>1. {"preflight", "stopping_workload", "backing_up", "copying", "verifying"} \subseteq ImportStatus \ Finished
    BY DEF ImportStatus, Finished
  <2> QED
    BY <2>1 DEF Progress, SaveBackingUp
<1>8. RowsOK' /\ RowsKept(i, pc = "done")
  BY Zenon, <1>1, <1>4, <1>7, RowsStay DEF IInv
<1>9. pc # "done" => Owned(i, [task[i] EXCEPT !.pc = pc])
  BY <1>2, <1>3, <1>6 DEF Owned, TaskShape, ImportPc, TaskPc, RollsBack, RestoresReplicas, Scaled, Copying
<1>10. i \notin mixed /\ pc # "done" => Safe(i, [task[i] EXCEPT !.pc = pc], dep', pods', vol', archive')
  BY Zenon, <1>2, <1>3, <1>4, <1>6 DEF Safe, TaskShape, Copying, Archived
<1>11. pc \in TaskPc \ Requesting
  BY DEF TaskPc, Requesting, RollsBack, RestoresReplicas
<1> QED
  BY <1>1, <1>4, <1>5, <1>6, <1>8, <1>9, <1>10, <1>11, GotoStep DEF IInv

\* The look at the volume before anything is stopped.
LEMMA PreflightKeeps ==
    ASSUME IInv, NEW i \in Import, Preflight(i)
    PROVE  IInv'
<1>1. i \in Task /\ i \in Active /\ i \in Import \union Restore /\ task[i].pc \in Fallible
  BY Facts DEF Task, Preflight, At, Requesting, Fallible
<1>2. task[i] \in TaskShape /\ Owned(i, task[i]) /\ (i \notin mixed => Safe(i, task[i], dep, pods, vol, archive))
  BY <1>1, Facts
<1>3. i \notin Backup /\ i \notin Restore
  BY ConstantsAssumption
<1>4. UNCHANGED <<imp, bak, dep, pods, vol, dir, archive, writes, mixed>>
  BY DEF Preflight, cluster, data
<1>5. DataOK'
  BY <1>1, <1>4, Costs DEF IInv, DataOK, Preflight
<1>6. CASE Fails(i)
  BY <1>1, <1>3, <1>4, <1>5, <1>6, FailStep DEF IInv
<1>7. CASE task' = [task EXCEPT ![i].pc = "save_stopping", ![i].seen = vol]
  <2> DEFINE k == [task[i] EXCEPT !.pc = "save_stopping", !.seen = vol]
  <2>1. task' = [task EXCEPT ![i] = k]
    BY Zenon, <1>7
  <2>2. vol \subseteq File
    BY DEF IInv, DataOK
  <2>3. k \in TaskShape /\ k.pc = "save_stopping" /\ k.seen = vol
    BY Zenon, <1>2, <2>2 DEF TaskShape, TaskPc
  <2> HIDE DEF k
  <2>4. Owned(i, k)
    BY <1>3, <2>3 DEF Owned, ImportPc, TaskPc, Scaled, Copying
  <2>5. Safe(i, k, dep', pods', vol', archive')
    BY <1>3, <1>4, <2>3 DEF Safe, Copying, Archived
  <2>6. RowsOK' /\ RowsKept(i, FALSE)
    BY Zenon, <1>1, <1>4, RowsStay DEF IInv
  <2>7. k.pc \notin Requesting /\ k.pc # "done"
    BY <2>3 DEF Requesting
  <2> QED
    BY Zenon, <1>1, <1>3, <1>4, <1>5, <2>1, <2>3, <2>4, <2>5, <2>6, <2>7, Step DEF IInv
<1> QED
  BY <1>6, <1>7 DEF Preflight

\* The archives of the host directory and of what the volume held.
LEMMA ArchiveKeeps ==
    ASSUME IInv, NEW i \in Import, ArchiveSource(i) \/ ArchiveTarget(i)
    PROVE  IInv'
<1>1. i \in Task /\ i \in Active /\ i \in Import \union Restore /\ task[i].pc \in {"archive_source", "archive_target"}
  BY Zenon, Facts DEF Task, ArchiveSource, ArchiveTarget, At, Requesting
<1>2. task[i] \in TaskShape /\ Owned(i, task[i]) /\ (i \notin mixed => Safe(i, task[i], dep, pods, vol, archive))
  BY Zenon, <1>1, Facts
<1>3. i \notin Backup /\ i \notin Restore
  BY ConstantsAssumption
<1>4. UNCHANGED <<imp, bak, dep, pods, vol, dir, writes, mixed>>
  BY DEF ArchiveSource, ArchiveTarget, cluster, data
<1>5. archive' = archive \/ archive' = [archive EXCEPT ![i] = vol]
  BY DEF ArchiveSource, ArchiveTarget, data
<1>6. DataOK'
  BY Zenon, <1>1, <1>4, <1>5, Costs DEF IInv, DataOK, ArchiveSource, ArchiveTarget
<1>7. CASE Fails(i) /\ archive' = archive
  BY <1>1, <1>3, <1>4, <1>6, <1>7, FailStep DEF IInv, Fallible
<1>8. ASSUME NEW pc \in {"archive_target", "clear"}, Goto(i, pc),
             pc = "clear" => task[i].seen = {} \/ (task[i].pc = "archive_target" /\ archive' = [archive EXCEPT ![i] = vol]),
             pc = "archive_target" => archive' = archive
      PROVE  IInv'
  <2>1. RowsOK' /\ RowsKept(i, FALSE)
    BY Zenon, <1>1, <1>4, RowsStay DEF IInv
  <2>2. Owned(i, [task[i] EXCEPT !.pc = pc])
    BY <1>1, <1>2, <1>3 DEF Owned, TaskShape, ImportPc, TaskPc, RestoresReplicas, Scaled, Copying
  <2>3. ASSUME i \notin mixed
        PROVE  Safe(i, [task[i] EXCEPT !.pc = pc], dep', pods', vol', archive')
    <3>1. Safe(i, task[i], dep, pods, vol, archive)
      BY <1>2, <2>3
    <3>2. task[i].seen \subseteq vol /\ dep = 0 /\ ~pods
      BY Zenon, <1>1, <3>1 DEF Safe, Copying
    <3>3. pc = "clear" => task[i].seen \subseteq archive'[i]
      BY <1>1, <1>8, <3>2 DEF IInv, DataOK
    <3>4. [task[i] EXCEPT !.pc = pc].pc = pc /\ [task[i] EXCEPT !.pc = pc].seen = task[i].seen
      BY <1>2 DEF TaskShape
    <3> QED
      BY <1>3, <1>4, <3>2, <3>3, <3>4 DEF Safe, Copying, Archived
  <2>4. pc \in TaskPc \ Requesting /\ pc # "done"
    BY DEF TaskPc, Requesting, RestoresReplicas
  <2> QED
    BY Zenon, <1>1, <1>4, <1>6, <1>8, <2>1, <2>2, <2>3, <2>4, GotoStep DEF IInv
<1> QED
  BY <1>1, <1>7, <1>8 DEF ArchiveSource, ArchiveTarget, Continue, At, data, Result

\* The two checksums.
LEMMA SumsKeep ==
    ASSUME IInv, NEW i \in Import, SumSource(i) \/ SumTarget(i)
    PROVE  IInv'
<1>1. i \in Task /\ i \in Active /\ i \in Import \union Restore /\ task[i].pc \in {"sum_source", "sum_target"}
  BY Zenon, Facts DEF Task, SumSource, SumTarget, At, Requesting
<1>2. task[i] \in TaskShape /\ Owned(i, task[i]) /\ (i \notin mixed => Safe(i, task[i], dep, pods, vol, archive))
  BY <1>1, Facts
<1>3. i \notin Backup /\ i \notin Restore
  BY ConstantsAssumption
<1>4. UNCHANGED <<imp, bak, dep, pods, vol, dir, archive, writes, mixed>>
  BY DEF SumSource, SumTarget, cluster, data
<1>5. DataOK'
  BY Zenon, <1>1, <1>4, Costs DEF IInv, DataOK, SumSource, SumTarget
<1>6. CASE Fails(i)
  BY Zenon, <1>1, <1>3, <1>4, <1>5, <1>6, FailStep DEF IInv, Fallible
<1>7. ASSUME NEW pc \in {"sum_target", "save_verified"}, NEW sum \in SUBSET File,
             task' = [task EXCEPT ![i] = [task[i] EXCEPT !.pc = pc, !.sum = sum]], pc = "save_verified" => sum = vol
      PROVE  IInv'
  <2> DEFINE k == [task[i] EXCEPT !.pc = pc, !.sum = sum]
  <2>1. k \in TaskShape /\ k.pc = pc /\ k.seen = task[i].seen /\ k.replicas = task[i].replicas /\ k.sum = sum
    BY Zenon, <1>2 DEF TaskShape, TaskPc, RollsBack
  <2>2. task' = [task EXCEPT ![i] = k]
    BY <1>7
  <2> HIDE DEF k
  <2>3. Owned(i, k)
    BY <1>1, <1>2, <1>3, <2>1 DEF Owned, ImportPc, TaskPc, RollsBack, Scaled, Copying
  <2>4. i \notin mixed => Safe(i, k, dep', pods', vol', archive')
    BY Zenon, <1>1, <1>2, <1>3, <1>4, <1>7, <2>1 DEF Safe, Copying, Archived
  <2>5. RowsOK' /\ RowsKept(i, FALSE)
    BY Zenon, <1>1, <1>4, RowsStay DEF IInv
  <2>6. k.pc \notin Requesting /\ k.pc # "done"
    BY Zenon, <2>1 DEF Requesting
  <2> QED
    BY Zenon, <1>1, <1>3, <1>4, <1>5, <2>1, <2>2, <2>3, <2>4, <2>5, <2>6, Step DEF IInv
<1>8. CASE task' = [task EXCEPT ![i].pc = "sum_target", ![i].sum = dir]
  <2>1. dir \in SUBSET File
    BY DEF IInv, DataOK, File
  <2>2. task' = [task EXCEPT ![i] = [task[i] EXCEPT !.pc = "sum_target", !.sum = dir]]
    BY Zenon, <1>8
  <2> QED
    BY Zenon, <1>7, <2>1, <2>2
<1>9. CASE Goto(i, "save_verified") /\ vol = task[i].sum
  <2>1. task[i].sum \in SUBSET File /\ [task[i] EXCEPT !.pc = "save_verified"]
            = [task[i] EXCEPT !.pc = "save_verified", !.sum = task[i].sum]
    BY Zenon, <1>2 DEF TaskShape
  <2>2. task' = [task EXCEPT ![i] = [task[i] EXCEPT !.pc = "save_verified", !.sum = task[i].sum]]
    BY Zenon, <1>9, <2>1 DEF Goto
  <2> QED
    BY Zenon, <1>7, <1>9, <2>1, <2>2
<1> QED
  BY <1>6, <1>8, <1>9 DEF SumSource, SumTarget, Continue, Result

\* The save that records the import as verified.
LEMMA VerifiedKeeps ==
    ASSUME IInv, NEW i \in Import, SaveVerified(i)
    PROVE  IInv'
<1>1. i \in Task /\ i \in Active /\ task[i].pc = "save_verified"
  BY Zenon, Facts DEF Task, SaveVerified, At, Requesting
<1>2. task[i] \in TaskShape /\ Owned(i, task[i]) /\ (i \notin mixed => Safe(i, task[i], dep, pods, vol, archive))
  BY <1>1, Facts
<1>3. i \notin Backup /\ i \notin Restore
  BY ConstantsAssumption
<1>4. UNCHANGED <<bak, dep, pods, vol, dir, archive, writes, mixed>>
  BY DEF SaveVerified, cluster, data
<1>5. DataOK'
  BY <1>4, Costs DEF IInv, DataOK, SaveVerified
<1>6. RowsOK' /\ RowsKept(i, FALSE)
  <2> DEFINE row == [imp[i] EXCEPT !.status = "restoring_workload", !.verified = TRUE]
  <2>1. row \in ImportShape /\ row.status \notin Finished
    BY Zenon DEF IInv, RowsOK, ImportShape, ImportStatus, Finished
  <2>2. imp' = imp \/ imp' = [imp EXCEPT ![i] = row]
    BY Zenon DEF SaveVerified
  <2> HIDE DEF row
  <2> QED
    BY <1>4, <2>1, <2>2 DEF IInv, RowsOK, RowsKept
<1>7. CASE Goto(i, "done")
  <2>1. "done" \in TaskPc \ Requesting /\ RowsKept(i, TRUE)
    BY Zenon, <1>6 DEF TaskPc, Requesting, RowsKept
  <2> QED
    BY Zenon, <1>1, <1>4, <1>5, <1>6, <1>7, <2>1, GotoStep DEF IInv
<1>8. CASE Goto(i, "scale_up")
  <2>1. "scale_up" \in TaskPc \ Requesting
    BY DEF TaskPc, Requesting, RestoresReplicas
  <2>2. Owned(i, [task[i] EXCEPT !.pc = "scale_up"])
    BY <1>1, <1>2, <1>3 DEF Owned, TaskShape, ImportPc, TaskPc, RestoresReplicas, Scaled, Copying
  <2>3. i \notin mixed => Safe(i, [task[i] EXCEPT !.pc = "scale_up"], dep', pods', vol', archive')
    BY <1>1, <1>2, <1>3, <1>4 DEF Safe, TaskShape, Copying, Archived
  <2> QED
    BY Zenon, <1>1, <1>4, <1>5, <1>6, <1>8, <2>1, <2>2, <2>3, GotoStep DEF IInv
<1> QED
  BY <1>7, <1>8 DEF SaveVerified

\* The wait for an available replica.
LEMMA ReadyKeeps ==
    ASSUME IInv, NEW i \in Import, WaitReady(i)
    PROVE  IInv'
<1>1. i \in Task /\ i \in Active /\ i \in Import \union Restore /\ task[i].pc = "wait_ready"
  BY Zenon, Facts DEF Task, WaitReady, At, Requesting
<1>2. task[i] \in TaskShape /\ Owned(i, task[i]) /\ (i \notin mixed => Safe(i, task[i], dep, pods, vol, archive))
  BY <1>1, Facts
<1>3. i \notin Backup /\ i \notin Restore
  BY Zenon, ConstantsAssumption
<1>4. UNCHANGED <<imp, bak, dep, pods, vol, dir, archive, writes, mixed, trouble>>
  BY DEF WaitReady, cluster, data
<1>5. DataOK'
  BY Zenon, <1>4 DEF IInv, DataOK
<1>6. CASE Fails(i)
  BY <1>1, <1>3, <1>4, <1>5, <1>6, FailStep DEF IInv, Fallible
<1>7. CASE Goto(i, "save_succeeded")
  <2>1. "save_succeeded" \in TaskPc \ Requesting
    BY DEF TaskPc, Requesting
  <2>2. Owned(i, [task[i] EXCEPT !.pc = "save_succeeded"])
    BY <1>1, <1>2, <1>3 DEF Owned, TaskShape, ImportPc, TaskPc, Scaled, Copying
  <2>3. i \notin mixed => Safe(i, [task[i] EXCEPT !.pc = "save_succeeded"], dep', pods', vol', archive')
    BY <1>1, <1>2, <1>3, <1>4 DEF Safe, TaskShape, Copying, Archived
  <2>4. RowsOK' /\ RowsKept(i, FALSE)
    BY Zenon, <1>1, <1>4, RowsStay DEF IInv
  <2> QED
    BY Zenon, <1>1, <1>4, <1>5, <1>7, <2>1, <2>2, <2>3, <2>4, GotoStep DEF IInv
<1> QED
  BY Zenon, <1>6, <1>7 DEF WaitReady

\* rollbackHostDirectoryImportTarget: whatever it does to the volume, the
\* archive keeps what the import found.
LEMMA RollbackKeeps ==
    ASSUME IInv, NEW i \in Import, Rollback(i)
    PROVE  IInv'
<1>1. i \in Task /\ i \in Active /\ task[i].pc = "rollback"
  BY Facts DEF Task, Rollback, At, Requesting
<1>2. task[i] \in TaskShape /\ Owned(i, task[i]) /\ (i \notin mixed => Safe(i, task[i], dep, pods, vol, archive))
  BY Zenon, <1>1, Facts
<1>3. i \notin Backup /\ i \notin Restore
  BY ConstantsAssumption
<1>4. UNCHANGED <<imp, bak, dep, pods, dir, archive, writes, mixed>> /\ Goto(i, "restore_replicas")
  BY DEF Rollback, cluster
<1>5. DataOK'
  <2>1. archive[i] \subseteq File /\ vol \subseteq File
    BY DEF IInv, DataOK
  <2>2. vol' \subseteq File
    BY Zenon, <2>1 DEF Rollback
  <2>3. trouble' \in Seq(TroubleKind) /\ Len(trouble') <= MaxTrouble
    BY <1>1, Costs DEF Rollback, IInv, DataOK
  <2> QED
    BY <1>4, <2>2, <2>3 DEF IInv, DataOK
<1>6. "restore_replicas" \in TaskPc \ Requesting
  BY DEF TaskPc, Requesting
<1>7. Owned(i, [task[i] EXCEPT !.pc = "restore_replicas"])
  BY <1>1, <1>2, <1>3 DEF Owned, TaskShape, ImportPc, TaskPc, Scaled, Copying
<1>8. i \notin mixed => Safe(i, [task[i] EXCEPT !.pc = "restore_replicas"], dep', pods', vol', archive')
  BY Zenon, <1>1, <1>2, <1>3, <1>4 DEF Safe, TaskShape, Copying, Archived
<1>9. RowsOK' /\ RowsKept(i, FALSE)
  BY Zenon, <1>1, <1>4, RowsStay DEF IInv
<1> QED
  BY Zenon, <1>1, <1>4, <1>5, <1>6, <1>7, <1>8, <1>9, GotoStep DEF IInv

-----------------------------------------------------------------------------
(* The steps that imports and restores share.                              *)

\* Finding the volume, and stopping the workload.
LEMMA StopKeeps ==
    ASSUME IInv, NEW t \in Import \union Restore, (t \in Restore /\ Locate(t)) \/ ScaleDown(t) \/ WaitStopped(t)
    PROVE  IInv'
<1>1. t \in Task /\ t \in Active /\ task[t].pc \in {"locate", "scale_down", "wait_stopped"}
  BY Facts DEF Task, Locate, ScaleDown, WaitStopped, At, Requesting
<1>2. task[t] \in TaskShape /\ Owned(t, task[t]) /\ (t \notin mixed => Safe(t, task[t], dep, pods, vol, archive))
  BY Zenon, <1>1, Facts
<1>3. t \notin Backup /\ (t \in Import => t \notin Restore)
  BY ConstantsAssumption
<1>4. UNCHANGED <<imp, bak, pods, vol, dir, archive, writes, mixed>> /\ dep' \in {dep, 0}
  BY DEF Locate, ScaleDown, WaitStopped, cluster, data
<1>5. DataOK'
  BY <1>1, <1>4, Costs DEF IInv, DataOK, Locate, ScaleDown, WaitStopped
<1>6. RowsOK' /\ RowsKept(t, FALSE)
  BY Zenon, <1>1, <1>4, RowsStay DEF IInv
<1>7. CASE Fails(t) /\ dep' = dep
  BY <1>1, <1>4, <1>5, <1>7, FailStep DEF IInv, Fallible
<1>8. CASE t \in Restore /\ Locate(t) /\ Goto(t, "scale_down")
  <2>1. "scale_down" \in TaskPc \ Requesting
    BY DEF TaskPc, Requesting
  <2>2. Owned(t, [task[t] EXCEPT !.pc = "scale_down"])
    BY <1>1, <1>2, <1>3, <1>8 DEF Owned, TaskShape, RestorePc, Scaled, Copying
  <2>3. t \in Restore
    BY <1>8
  <2>4. Safe(t, [task[t] EXCEPT !.pc = "scale_down"], dep', pods', vol', archive')
    BY <1>2, <1>3, <2>3 DEF Safe, TaskShape, Copying
  <2> QED
    BY Zenon, <1>1, <1>4, <1>5, <1>6, <1>8, <2>1, <2>2, <2>4, GotoStep DEF IInv
<1>9. CASE ScaleDown(t) /\ dep' = 0 /\ task' = [task EXCEPT ![t].pc = "wait_stopped", ![t].replicas = dep]
  <2> DEFINE k == [task[t] EXCEPT !.pc = "wait_stopped", !.replicas = dep]
  <2>1. k \in TaskShape /\ k.pc = "wait_stopped" /\ k.replicas = dep /\ k.of = task[t].of /\ k.seen = task[t].seen
    BY Zenon, <1>2 DEF TaskShape, TaskPc, IInv, DataOK
  <2>2. task' = [task EXCEPT ![t] = k]
    BY Zenon, <1>9
  <2>3. task[t].pc = "scale_down"
    BY <1>9 DEF ScaleDown, At
  <2> HIDE DEF k
  <2>4. Owned(t, k)
    BY <1>2, <1>3, <2>1, <2>3 DEF Owned, ImportPc, RestorePc, TaskPc, IInv, DataOK
  <2>5. t \notin mixed => Safe(t, k, dep', pods', vol', archive')
    BY <1>2, <1>3, <1>4, <1>9, <2>1, <2>3 DEF Safe, Copying, Archived
  <2>6. k.pc \notin Requesting /\ k.pc # "done"
    BY <2>1 DEF Requesting
  <2> QED
    BY Zenon, <1>1, <1>4, <1>5, <1>6, <2>1, <2>2, <2>4, <2>5, <2>6, Step DEF IInv
<1>10. ASSUME WaitStopped(t), ~pods, NEW pc \in {"save_backing_up", "clear"}, Goto(t, pc),
              pc = IF t \in Import THEN "save_backing_up" ELSE "clear"
       PROVE  IInv'
  <2>1. pc \in TaskPc \ Requesting
    BY DEF TaskPc, Requesting, RestoresReplicas
  <2>2. task[t].pc = "wait_stopped" /\ dep' = dep
    BY <1>10 DEF WaitStopped, At, cluster
  <2>3. Owned(t, [task[t] EXCEPT !.pc = pc])
    BY <1>2, <1>3, <1>10, <2>2 DEF Owned, TaskShape, ImportPc, TaskPc, RestorePc, Scaled, Copying
  <2>4. t \notin mixed => Safe(t, [task[t] EXCEPT !.pc = pc], dep', pods', vol', archive')
    BY <1>2, <1>3, <1>4, <1>10, <2>2 DEF Safe, TaskShape, Copying, Archived
  <2> QED
    BY Zenon, <1>1, <1>4, <1>5, <1>6, <1>10, <2>1, <2>3, <2>4, GotoStep DEF IInv
<1> QED
  BY <1>7, <1>8, <1>9, <1>10 DEF Locate, ScaleDown, WaitStopped, Continue, cluster, Result

\* Clearing the volume: an import has its archive by now, and a restore that
\* succeeds leaves it empty.
LEMMA ClearKeeps ==
    ASSUME IInv, NEW t \in Import \union Restore, Clear(t)
    PROVE  IInv'
<1>1. t \in Task /\ t \in Active /\ task[t].pc = "clear"
  BY Zenon, Facts DEF Task, Clear, At, Requesting
<1>2. task[t] \in TaskShape /\ Owned(t, task[t]) /\ (t \notin mixed => Safe(t, task[t], dep, pods, vol, archive))
  BY <1>1, Facts
<1>3. t \notin Backup /\ (t \in Import => t \notin Restore)
  BY ConstantsAssumption
<1>4. UNCHANGED <<imp, bak, dep, pods, dir, archive, writes, mixed>>
  BY Zenon DEF Clear, cluster
<1>5. DataOK'
  <2>1. vol' \subseteq vol
    BY Zenon DEF Clear
  <2> QED
    BY <1>1, <1>4, <2>1, Costs DEF IInv, DataOK, Clear
<1>6. RowsOK' /\ RowsKept(t, FALSE)
  BY Zenon, <1>1, <1>4, RowsStay DEF IInv
<1>7. CASE Fails(t)
  BY Zenon, <1>1, <1>4, <1>5, <1>7, FailStep DEF IInv, Fallible
<1>8. ASSUME vol' = {}, NEW pc \in {"save_copying", "stream"}, Goto(t, pc),
             pc = IF t \in Import THEN "save_copying" ELSE "stream"
      PROVE  IInv'
  <2>1. pc \in TaskPc \ Requesting
    BY DEF TaskPc, Requesting, RollsBack
  <2>2. Owned(t, [task[t] EXCEPT !.pc = pc])
    BY <1>1, <1>2, <1>3, <1>8 DEF Owned, TaskShape, ImportPc, TaskPc, RestorePc, Scaled, Copying
  <2>3. t \notin mixed => Safe(t, [task[t] EXCEPT !.pc = pc], dep', pods', vol', archive')
    BY <1>1, <1>2, <1>3, <1>4, <1>8 DEF Safe, TaskShape, Copying, Archived
  <2> QED
    BY Zenon, <1>1, <1>4, <1>5, <1>6, <1>8, <2>1, <2>2, <2>3, GotoStep DEF IInv
<1> QED
  BY <1>7, <1>8 DEF Clear, Continue, Result

\* streamPVCData: a restore that succeeds has put the backup on an empty volume.
LEMMA StreamKeeps ==
    ASSUME IInv, NEW t \in Import \union Restore, Stream(t)
    PROVE  IInv'
<1> DEFINE from == IF t \in Import THEN dir ELSE archive[task[t].of]
<1>1. t \in Task /\ t \in Active /\ task[t].pc = "stream"
  BY Zenon, Facts DEF Task, Stream, At, Requesting
<1>2. task[t] \in TaskShape /\ Owned(t, task[t]) /\ (t \notin mixed => Safe(t, task[t], dep, pods, vol, archive))
  BY <1>1, Facts
<1>3. t \notin Backup /\ (t \in Import => t \notin Restore)
  BY Zenon, ConstantsAssumption
<1>4. UNCHANGED <<imp, bak, dep, pods, dir, archive, writes, mixed>>
  BY Zenon DEF Stream, cluster
<1>5. PICK r \in Result :
        /\ CallCost(t, r)
        /\ \E part \in IF r = "ok" THEN {from} ELSE SUBSET from : vol' = vol \union part
        /\ Continue(t, r, IF t \in Import THEN "save_verifying" ELSE "scale_up")
  BY Zenon DEF Stream
<1>6. DataOK'
  <2>1. from \subseteq File
    BY Zenon, <1>1, <1>2 DEF IInv, DataOK, Owned, File
  <2>2. vol' \subseteq File
    BY <1>5, <2>1 DEF IInv, DataOK
  <2> QED
    BY Zenon, <1>1, <1>4, <1>5, <2>2, Costs DEF IInv, DataOK
<1>7. RowsOK' /\ RowsKept(t, FALSE)
  BY Zenon, <1>1, <1>4, RowsStay DEF IInv
<1>8. CASE Fails(t)
  BY Zenon, <1>1, <1>4, <1>6, <1>8, FailStep DEF IInv, Fallible
<1>9. CASE r = "ok"
  <2> DEFINE pc == IF t \in Import THEN "save_verifying" ELSE "scale_up"
  <2>1. Goto(t, pc) /\ vol' = vol \union from
    BY Zenon, <1>5, <1>9 DEF Continue
  <2>2. pc \in TaskPc \ Requesting
    BY DEF TaskPc, Requesting, RestoresReplicas
  <2>3. Owned(t, [task[t] EXCEPT !.pc = pc])
    BY Zenon, <1>1, <1>2, <1>3 DEF Owned, TaskShape, ImportPc, TaskPc, RestorePc, Scaled, Copying
  <2>4. t \notin mixed => Safe(t, [task[t] EXCEPT !.pc = pc], dep', pods', vol', archive')
    BY <1>1, <1>2, <1>3, <1>4, <2>1 DEF Safe, TaskShape, Copying, Archived
  <2> QED
    BY Zenon, <1>1, <1>4, <1>6, <1>7, <2>1, <2>2, <2>3, <2>4, GotoStep DEF IInv
<1> QED
  BY Zenon, <1>5, <1>8, <1>9 DEF Continue

\* Scaling up at the end: a restore ignores the error of the call.
LEMMA ScaleUpKeeps ==
    ASSUME IInv, NEW t \in Import \union Restore, ScaleUp(t)
    PROVE  IInv'
<1>1. t \in Task /\ t \in Active /\ task[t].pc = "scale_up"
  BY Zenon, Facts DEF Task, ScaleUp, At, Requesting
<1>2. task[t] \in TaskShape /\ Owned(t, task[t]) /\ (t \notin mixed => Safe(t, task[t], dep, pods, vol, archive))
  BY Zenon, <1>1, Facts
<1>3. t \notin Backup /\ (t \in Import => t \notin Restore) /\ task[t].replicas \in {0, 1}
  BY <1>1, <1>2, ConstantsAssumption DEF Owned, Scaled, Copying
<1>4. UNCHANGED <<imp, bak, pods, vol, dir, archive, writes, mixed>>
  BY DEF ScaleUp, data
<1>5. DataOK'
  BY Zenon, <1>1, <1>3, <1>4, Costs DEF IInv, DataOK, ScaleUp
<1>6. RowsOK' /\ RowsKept(t, FALSE)
  BY Zenon, <1>1, <1>4, RowsStay DEF IInv
<1>7. CASE t \in Import /\ Fails(t) /\ dep' = dep
  BY <1>1, <1>3, <1>4, <1>5, <1>7, FailStep DEF IInv, Fallible
<1>8. ASSUME t \in Import, dep' = task[t].replicas, NEW pc \in {"wait_ready", "save_succeeded"}, Goto(t, pc)
      PROVE  IInv'
  <2>1. pc \in TaskPc \ Requesting
    BY DEF TaskPc, Requesting, RestoresReplicas
  <2>2. Owned(t, [task[t] EXCEPT !.pc = pc])
    BY <1>2, <1>3, <1>8 DEF Owned, TaskShape, ImportPc, TaskPc, RestoresReplicas
  <2>3. t \notin mixed => Safe(t, [task[t] EXCEPT !.pc = pc], dep', pods', vol', archive')
    BY Zenon, <1>1, <1>2, <1>3, <1>4, <1>8 DEF Safe, TaskShape, Copying, Archived
  <2> QED
    BY Zenon, <1>1, <1>4, <1>5, <1>6, <1>8, <2>1, <2>2, <2>3, GotoStep DEF IInv
<1>9. ASSUME t \in Restore, NEW undo \in {task[t].undo, "broken"}, undo # "broken" => dep' = task[t].replicas,
             task' = [task EXCEPT ![t] = [task[t] EXCEPT !.pc = "save_succeeded", !.undo = undo]]
      PROVE  IInv'
  <2> DEFINE k == [task[t] EXCEPT !.pc = "save_succeeded", !.undo = undo]
  <2>1. /\ k \in TaskShape /\ k.pc = "save_succeeded" /\ k.undo = undo /\ k.of = task[t].of
        /\ k.replicas = task[t].replicas
    BY Zenon, <1>2 DEF TaskShape, TaskPc
  <2>2. task' = [task EXCEPT ![t] = k]
    BY <1>9
  <2> HIDE DEF k
  <2>3. t \notin Import
    BY <1>3, <1>9
  <2>4. Owned(t, k)
    BY <1>1, <1>2, <1>3, <2>1, <2>3 DEF Owned, RestorePc
  <2>5. Safe(t, k, dep', pods', vol', archive')
    BY Zenon, <1>3, <1>9, <2>1, <2>3 DEF Safe, Copying
  <2>6. k.pc \notin Requesting /\ k.pc # "done"
    BY <2>1 DEF Requesting
  <2> QED
    BY Zenon, <1>1, <1>4, <1>5, <1>6, <2>1, <2>2, <2>4, <2>5, <2>6, Step DEF IInv
<1>10. CASE t \in Import
  BY <1>3, <1>7, <1>8, <1>10 DEF ScaleUp, Continue, Result
<1>11. CASE t \in Restore
  <2>1. PICK r \in Result :
          /\ dep' = IF r = "ok" THEN task[t].replicas ELSE dep
          /\ task' = [task EXCEPT ![t].pc = "save_succeeded", ![t].undo = IF r = "ok" THEN @ ELSE "broken"]
    BY <1>3, <1>11 DEF ScaleUp
  <2>2. task' = [task EXCEPT ![t] = [task[t] EXCEPT !.pc = "save_succeeded",
                                                    !.undo = IF r = "ok" THEN task[t].undo ELSE "broken"]]
    BY Zenon, <2>1
  <2> QED
    BY Zenon, <1>9, <1>11, <2>1, <2>2
<1> QED
  BY <1>10, <1>11

\* Restoring the replicas of a failed task, whose errors are ignored.
LEMMA RestoreReplicasKeeps ==
    ASSUME IInv, NEW t \in Import \union Restore, RestoreReplicas(t)
    PROVE  IInv'
<1>1. t \in Task /\ t \in Active /\ task[t].pc = "restore_replicas"
  BY Facts DEF Task, RestoreReplicas, At, Requesting
<1>2. task[t] \in TaskShape /\ Owned(t, task[t]) /\ (t \notin mixed => Safe(t, task[t], dep, pods, vol, archive))
  BY <1>1, Facts
<1>3. t \notin Backup /\ (t \in Import => t \notin Restore) /\ task[t].replicas \in {0, 1}
  BY Zenon, <1>1, <1>2, ConstantsAssumption DEF Owned, Scaled, Copying
<1>4. UNCHANGED <<imp, bak, pods, vol, dir, archive, writes, mixed>>
  BY DEF RestoreReplicas, data
<1>5. DataOK'
  BY <1>1, <1>3, <1>4, Costs DEF IInv, DataOK, RestoreReplicas, Result
<1>6. RowsOK' /\ RowsKept(t, FALSE)
  BY Zenon, <1>1, <1>4, RowsStay DEF IInv
<1>7. PICK undo \in {task[t].undo, "broken"} :
        /\ undo # "broken" => dep' = task[t].replicas
        /\ task' = [task EXCEPT ![t] = [task[t] EXCEPT !.pc = "save_failed", !.undo = undo]]
  BY Zenon DEF RestoreReplicas, Result
<1> DEFINE k == [task[t] EXCEPT !.pc = "save_failed", !.undo = undo]
<1>8. /\ k \in TaskShape /\ k.pc = "save_failed" /\ k.undo = undo /\ k.of = task[t].of
      /\ k.replicas = task[t].replicas /\ k.seen = task[t].seen
  BY Zenon, <1>2 DEF TaskShape, TaskPc
<1>9. task' = [task EXCEPT ![t] = k]
  BY <1>7
<1> HIDE DEF k
<1>10. undo # "none"
  BY <1>1, <1>2, <1>3, <1>7 DEF Owned
<1>11. Owned(t, k)
  BY <1>1, <1>2, <1>3, <1>8, <1>10 DEF Owned, RestorePc, ImportPc, TaskPc
<1>12. t \notin mixed => Safe(t, k, dep', pods', vol', archive')
  BY Zenon, <1>2, <1>3, <1>4, <1>7, <1>8 DEF Safe, Copying, Archived
<1>13. k.pc \notin Requesting /\ k.pc # "done"
  BY <1>8 DEF Requesting
<1> QED
  BY Zenon, <1>1, <1>4, <1>5, <1>6, <1>8, <1>9, <1>11, <1>12, <1>13, Step DEF IInv

\* The last save: a final status is written as the goroutine ends.
LEMMA FinishKeeps ==
    ASSUME IInv, NEW t \in Import \union Restore, NEW status \in Finished, Finish(t, status)
    PROVE  IInv'
<1>1. t \in Task /\ t \in Active
  BY Facts DEF Task, Finish, At, Requesting
<1>2. t \in Restore => task[t].of \in Backup
  BY Zenon, <1>1, Facts DEF Owned, Requesting
<1>3. UNCHANGED <<dep, pods, vol, dir, archive, writes, mixed>> /\ Goto(t, "done")
  BY DEF Finish, cluster, data
<1>4. DataOK'
  BY <1>3, Costs DEF IInv, DataOK, Finish
<1>5. RowsOK' /\ RowsKept(t, TRUE)
  <2>1. CASE t \in Import
    <3> DEFINE row == [imp[t] EXCEPT !.status = status]
    <3>1. row \in ImportShape
      BY <2>1 DEF IInv, RowsOK, ImportShape, ImportStatus
    <3>2. bak' = bak /\ (imp' = imp \/ imp' = [imp EXCEPT ![t] = row])
      BY <2>1 DEF Finish, SaveImport
    <3> HIDE DEF row
    <3> QED
      BY Zenon, <2>1, <3>1, <3>2 DEF IInv, RowsOK, RowsKept
  <2>2. CASE t \in Restore
    <3> DEFINE row == [bak[task[t].of] EXCEPT !.restore = status]
    <3>1. row \in BackupShape /\ row.status = bak[task[t].of].status
      BY Zenon, <1>2, <2>2 DEF IInv, RowsOK, BackupShape
    <3>2. imp' = imp /\ (bak' = bak \/ bak' = [bak EXCEPT ![task[t].of] = row])
      BY <2>2, ConstantsAssumption DEF Finish
    <3> HIDE DEF row
    <3> QED
      BY Zenon, <1>2, <2>2, <3>1, <3>2 DEF IInv, RowsOK, RowsKept
  <2> QED
    BY Zenon, <2>1, <2>2
<1>6. "done" \in TaskPc \ Requesting
  BY DEF TaskPc, Requesting
<1> QED
  BY Zenon, <1>1, <1>3, <1>4, <1>5, <1>6, GotoStep DEF IInv

-----------------------------------------------------------------------------
(* The steps of a backup.                                                  *)

\* The saves of a backup, whose errors are ignored.
LEMMA SaveBackupKeeps ==
    ASSUME IInv, NEW b \in Backup,
           \/ SaveBackup(b, "save_running", "running", "copy_begin")
           \/ SaveBackup(b, "save_succeeded", "succeeded", "done")
           \/ SaveBackup(b, "save_failed", "failed", "done")
    PROVE  IInv'
<1>1. b \in Task /\ b \in Active /\ b \notin Import /\ b \notin Restore
  BY Facts, ConstantsAssumption DEF Task, SaveBackup, At, Requesting
<1>2. task[b] \in TaskShape
  BY <1>1, Facts
<1>3. UNCHANGED <<imp, dep, pods, vol, dir, archive, writes, mixed>>
  BY DEF SaveBackup, cluster, data
<1>4. DataOK'
  BY <1>3, Costs DEF IInv, DataOK, SaveBackup
<1>5. PICK pc \in {"copy_begin", "done"}, status \in {"running", "succeeded", "failed"} :
        /\ Goto(b, pc) /\ (pc # "done" => status = "running")
        /\ bak' = bak \/ bak' = [bak EXCEPT ![b] = [bak[b] EXCEPT !.status = status]]
  BY DEF SaveBackup
<1>6. RowsOK' /\ RowsKept(b, pc = "done")
  <2> DEFINE row == [bak[b] EXCEPT !.status = status]
  <2>1. row \in BackupShape /\ row.status = status
    BY Zenon DEF IInv, RowsOK, BackupShape, Finished
  <2>2. bak' = bak \/ bak' = [bak EXCEPT ![b] = row]
    BY <1>5
  <2>3. bak[b].status # "succeeded"
    BY Zenon, <1>1 DEF IInv, Recorded, Active
  <2> HIDE DEF row
  <2> QED
    BY <1>3, <1>5, <2>1, <2>2, <2>3 DEF IInv, RowsOK, RowsKept
<1>7. pc \in TaskPc \ Requesting
  BY DEF TaskPc, Requesting
<1>8. pc # "done" => Owned(b, [task[b] EXCEPT !.pc = pc])
  BY <1>1, <1>2 DEF Owned, TaskShape, BackupPc
<1>9. pc # "done" => Safe(b, [task[b] EXCEPT !.pc = pc], dep', pods', vol', archive')
  BY <1>1, <1>2 DEF Safe, TaskShape, Copying
<1> QED
  BY <1>1, <1>3, <1>4, <1>5, <1>6, <1>7, <1>8, <1>9, GotoStep DEF IInv

\* The copy: alone, nothing is removed from the volume while it runs, so what
\* was there when it began is in the archive of a copy that succeeded.
LEMMA CopyKeeps ==
    ASSUME IInv, NEW b \in Backup, CopyBegin(b) \/ CopyEnd(b)
    PROVE  IInv'
<1>1. b \in Task /\ b \in Active /\ b \notin Import /\ b \notin Restore /\ task[b].pc \in {"copy_begin", "copy_end"}
  BY Zenon, Facts, ConstantsAssumption DEF Task, CopyBegin, CopyEnd, At, Requesting
<1>2. task[b] \in TaskShape /\ (b \notin mixed => Safe(b, task[b], dep, pods, vol, archive))
  BY <1>1, Facts
<1>3. UNCHANGED <<imp, bak, dep, pods, vol, dir, writes, mixed>>
  BY Zenon DEF CopyBegin, CopyEnd, cluster, data
<1>4. RowsOK' /\ RowsKept(b, FALSE)
  BY Zenon, <1>1, <1>3, RowsStay DEF IInv
<1>5. vol \subseteq File
  BY DEF IInv, DataOK
<1>6. CASE CopyBegin(b)
  <2>1. PICK pc \in {"copy_end", "save_failed"} : task' = [task EXCEPT ![b] = [task[b] EXCEPT !.pc = pc, !.seen = vol]]
    BY Zenon, <1>6 DEF CopyBegin
  <2> DEFINE k == [task[b] EXCEPT !.pc = pc, !.seen = vol]
  <2>2. k \in TaskShape /\ k.pc = pc /\ k.seen = vol
    BY Zenon, <1>2, <1>5 DEF TaskShape, TaskPc
  <2>3. task' = [task EXCEPT ![b] = k]
    BY <2>1
  <2> HIDE DEF k
  <2>4. Owned(b, k)
    BY <1>1, <2>2 DEF Owned, BackupPc
  <2>5. Safe(b, k, dep', pods', vol', archive')
    BY <1>1, <1>3, <2>2 DEF Safe, Copying
  <2>6. k.pc \notin Requesting /\ k.pc # "done"
    BY Zenon, <2>2 DEF Requesting
  <2>7. DataOK'
    BY <1>1, <1>3, <1>6, Costs DEF IInv, DataOK, CopyBegin, data
  <2> QED
    BY Zenon, <1>1, <1>3, <1>4, <2>2, <2>3, <2>4, <2>5, <2>6, <2>7, Step DEF IInv
<1>7. CASE CopyEnd(b)
  <2>1. PICK r \in Result, copy \in SUBSET (task[b].seen \union vol) :
          /\ CallCost(b, r)
          /\ r = "ok" => task[b].seen \intersect vol \subseteq copy
          /\ archive' = [archive EXCEPT ![b] = copy]
          /\ Goto(b, IF r = "ok" THEN "save_succeeded" ELSE "save_failed")
    BY Zenon, <1>7 DEF CopyEnd
  <2> DEFINE pc == IF r = "ok" THEN "save_succeeded" ELSE "save_failed"
  <2>2. DataOK'
    <3>1. copy \subseteq File
      BY Zenon, <1>2, <1>5 DEF TaskShape
    <3> QED
      BY Zenon, <1>1, <1>3, <2>1, <3>1, Costs DEF IInv, DataOK
  <2>3. pc \in TaskPc \ Requesting
    BY DEF TaskPc, Requesting
  <2>4. Owned(b, [task[b] EXCEPT !.pc = pc])
    BY Zenon, <1>1, <1>2 DEF Owned, TaskShape, BackupPc
  <2>5. ASSUME b \notin mixed
        PROVE  Safe(b, [task[b] EXCEPT !.pc = pc], dep', pods', vol', archive')
    <3>1. task[b].pc = "copy_end"
      BY Zenon, <1>7 DEF CopyEnd, At
    <3>2. task[b].seen \subseteq vol
      BY Zenon, <1>2, <2>5, <3>1 DEF Safe
    <3>3. pc = "save_succeeded" => task[b].seen \subseteq archive'[b]
      BY Zenon, <2>1, <3>2 DEF IInv, DataOK
    <3> QED
      BY Zenon, <1>1, <1>2, <3>3 DEF Safe, TaskShape, Copying
  <2>6. Goto(b, pc) /\ pc # "done"
    BY Zenon, <2>1
  <2> HIDE DEF pc
  <2> QED
    BY Zenon, <1>1, <1>3, <1>4, <2>2, <2>3, <2>4, <2>5, <2>6, GotoStep DEF IInv
<1> QED
  BY <1>6, <1>7

-----------------------------------------------------------------------------
(* Requests, the process and the cluster.                                  *)

\* A request either goes on, gives up, or starts a goroutine; in the last case
\* whatever runs already is recorded in mixed together with it.
LEMMA RequestStep ==
    ASSUME IInv, NEW t \in Task, task[t].pc \in Requesting,
           NEW k \in TaskShape, Owned(t, k), task' = [task EXCEPT ![t] = k],
           UNCHANGED <<dep, pods, vol, archive>>,
           RowsKept(t, FALSE),
           t \in Restore /\ k.pc \notin {"idle", "done"} => k.of \in Backup /\ bak[k.of].status = "succeeded",
           t \in Import => k.seen = {},
           \/ k.pc \in Requesting \union {"done"} /\ mixed' = mixed
           \/ k.pc \notin Requesting \union {"done"} /\ Started(t) /\ Safe(t, k, dep, pods, vol, archive)
    PROVE  Recorded' /\ TasksOK' /\ Alone' /\ AllSafe'
<1>1. task' \in [Task -> TaskShape] /\ task'[t] = k /\ \A u \in Task \ {t} : task'[u] = task[u]
  BY Zenon DEF IInv, TasksOK
<1>2. t \notin Active /\ task[t].pc # "done" /\ Active \subseteq Task
  BY Zenon DEF Active, Requesting
<1>3. TasksOK'
  <2>1. mixed' \subseteq Task
    BY Zenon, <1>2 DEF IInv, TasksOK, Started
  <2> QED
    BY Zenon, <1>1, <2>1 DEF IInv, TasksOK, Task
<1>4. Recorded'
  <2>1. \A i \in Import : imp'[i].status \in Finished => task'[i].pc = "done"
    BY Zenon, <1>1, <1>2 DEF RowsKept, IInv, Recorded, Task
  <2>2. \A b \in Backup : bak'[b].status = "succeeded" => task'[b].pc = "done"
    BY <1>1, <1>2 DEF RowsKept, IInv, Recorded, Task
  <2>3. ASSUME NEW x \in Restore, task'[x].pc \notin {"idle", "done"}
        PROVE  bak'[task'[x].of].status = "succeeded"
    <3>1. CASE x = t
      BY Zenon, <1>1, <2>3, <3>1 DEF RowsKept
    <3>2. CASE x # t
      <4>1. x \in Task /\ task'[x] = task[x]
        BY <1>1, <3>2 DEF Task
      <4>2. task[x].of \in Backup /\ bak[task[x].of].status = "succeeded"
        BY Zenon, <2>3, <4>1 DEF IInv, TasksOK, Owned, Recorded
      <4> QED
        BY <4>1, <4>2 DEF RowsKept
    <3> QED
      BY <3>1, <3>2
  <2> QED
    BY Zenon, <2>1, <2>2, <2>3 DEF Recorded
<1>5. CASE k.pc \in Requesting \union {"done"} /\ mixed' = mixed
  <2>1. Active' = Active /\ \A u \in Active : task'[u] = task[u]
    BY Zenon, <1>1, <1>2, <1>5 DEF Active
  <2> QED
    BY <1>3, <1>4, <1>5, <2>1 DEF IInv, Alone, AllSafe
<1>6. CASE k.pc \notin Requesting \union {"done"} /\ Started(t) /\ Safe(t, k, dep, pods, vol, archive)
  <2>1. Active' = Active \union {t}
    BY Zenon, <1>1, <1>2, <1>6 DEF Active
  <2>2. mixed' = IF Active = {} THEN mixed ELSE mixed \union Active \union {t}
    BY Zenon, <1>6 DEF Started
  <2>3. Alone'
    BY Zenon, <2>1, <2>2 DEF IInv, Alone
  <2>4. AllSafe'
    <3> SUFFICES ASSUME NEW u \in Active', u \notin mixed'
                 PROVE  Safe(u, task'[u], dep', pods', vol', archive')
      BY Zenon DEF AllSafe
    <3>1. u = t
      BY <2>1, <2>2
    <3> QED
      BY Zenon, <1>1, <1>6, <3>1
  <2> QED
    BY Zenon, <1>3, <1>4, <2>3, <2>4
<1> QED
  BY Zenon, <1>5, <1>6

\* The three writes of a request to import.
LEMMA ImportRequestKeeps ==
    ASSUME IInv, NEW i \in Import, (\E c \in BOOLEAN : RequestImport(i, c)) \/ InsertImport(i) \/ StartImport(i)
    PROVE  IInv'
<1>1. i \in Task /\ i \notin Backup /\ i \notin Restore /\ task[i].pc \in {"idle", "insert", "save_paths"}
  BY ConstantsAssumption DEF Task, RequestImport, InsertImport, StartImport, At
<1>2. task[i] \in TaskShape /\ task[i].seen = {} /\ task[i].pc \in Requesting
  BY Zenon, <1>1, Facts DEF IInv, TasksOK, Requesting
<1>3. UNCHANGED <<bak, dep, pods, vol, dir, archive, writes>>
  BY DEF RequestImport, InsertImport, StartImport, cluster, data
<1>4. DataOK'
  BY <1>3, Costs DEF IInv, DataOK, RequestImport, InsertImport, StartImport
<1>5. RowsOK' /\ RowsKept(i, FALSE)
  <2>1. CASE \E c \in BOOLEAN : RequestImport(i, c)
    <3>1. PICK c \in BOOLEAN : imp' = [imp EXCEPT ![i] = [imp[i] EXCEPT !.confirmed = c]]
      BY Zenon, <2>1 DEF RequestImport
    <3> DEFINE row == [imp[i] EXCEPT !.confirmed = c]
    <3>2. row \in ImportShape /\ row.status = imp[i].status
      BY DEF IInv, RowsOK, ImportShape
    <3>3. imp' = [imp EXCEPT ![i] = row]
      BY <3>1
    <3> HIDE DEF row
    <3> QED
      BY Zenon, <1>3, <3>2, <3>3 DEF IInv, RowsOK, RowsKept
  <2>2. CASE InsertImport(i) \/ StartImport(i)
    <3>1. "pending" \in ImportStatus \ Finished
      BY DEF ImportStatus, Finished
    <3> QED
      BY Zenon, <1>1, <1>3, <2>2, <3>1, RowsStay DEF IInv, InsertImport, StartImport
  <2> QED
    BY Zenon, <2>1, <2>2
<1>6. PICK pc \in {"insert", "save_paths", "save_preflight", "done"} :
        Goto(i, pc) /\ IF pc = "save_preflight" THEN Started(i) ELSE mixed' = mixed
  BY DEF RequestImport, InsertImport, StartImport
<1> DEFINE k == IF pc = "done" THEN Ended(i) ELSE [task[i] EXCEPT !.pc = pc]
<1>7. task' = [task EXCEPT ![i] = k]
  BY <1>6 DEF Goto
<1>8. k \in TaskShape /\ k.pc = pc /\ k.seen = {}
  BY <1>1, <1>2, Records DEF TaskShape, TaskPc, Requesting, Ended, New
<1> HIDE DEF k
<1>9. Owned(i, k)
  BY <1>1, <1>8 DEF Owned, ImportPc, TaskPc, Requesting, Scaled, Copying
<1>10. pc = "save_preflight" => Safe(i, k, dep, pods, vol, archive)
  BY <1>1, <1>8 DEF Safe, Copying, Archived
<1>11. pc \in Requesting \union {"done"} <=> pc # "save_preflight"
  BY DEF Requesting
<1> QED
  BY Zenon, <1>1, <1>2, <1>3, <1>4, <1>5, <1>6, <1>7, <1>8, <1>9, <1>10, <1>11, RequestStep DEF IInv

\* A backup is recorded and its goroutine started.
LEMMA CreateBackupKeeps ==
    ASSUME IInv, NEW b \in Backup, CreateBackup(b)
    PROVE  IInv'
<1>1. b \in Task /\ b \notin Import /\ b \notin Restore /\ task[b].pc = "idle" /\ "idle" \in Requesting
  BY ConstantsAssumption DEF Task, CreateBackup, At, Requesting
<1>2. task[b] \in TaskShape
  BY <1>1, Facts
<1>3. UNCHANGED <<imp, dep, pods, vol, dir, archive, writes>>
  BY DEF CreateBackup, cluster, data
<1>4. DataOK'
  BY Zenon, <1>3, Costs DEF IInv, DataOK, CreateBackup
<1>5. RowsOK' /\ RowsKept(b, FALSE)
  <2> DEFINE row == [bak[b] EXCEPT !.status = "accepted"]
  <2>1. row \in BackupShape /\ row.status = "accepted"
    BY Zenon DEF IInv, RowsOK, BackupShape
  <2>2. bak' = bak \/ bak' = [bak EXCEPT ![b] = row]
    BY Zenon DEF CreateBackup
  <2>3. bak[b].status # "succeeded"
    BY <1>1 DEF IInv, Recorded
  <2> HIDE DEF row
  <2> QED
    BY <1>3, <2>1, <2>2, <2>3 DEF IInv, RowsOK, RowsKept
<1>6. PICK pc \in {"save_running", "done"} : Goto(b, pc) /\ IF pc = "save_running" THEN Started(b) ELSE mixed' = mixed
  BY DEF CreateBackup
<1> DEFINE k == IF pc = "done" THEN Ended(b) ELSE [task[b] EXCEPT !.pc = pc]
<1>7. task' = [task EXCEPT ![b] = k]
  BY <1>6 DEF Goto
<1>8. k \in TaskShape /\ k.pc = pc
  BY Zenon, <1>1, <1>2, Records DEF TaskShape, TaskPc
<1> HIDE DEF k
<1>9. Owned(b, k)
  BY Zenon, <1>1, <1>8 DEF Owned, BackupPc
<1>10. Safe(b, k, dep, pods, vol, archive)
  BY <1>1, <1>8 DEF Safe, Copying
<1>11. pc \in Requesting \union {"done"} <=> pc # "save_running"
  BY DEF Requesting
<1> QED
  BY Zenon, <1>1, <1>2, <1>3, <1>4, <1>5, <1>6, <1>7, <1>8, <1>9, <1>10, <1>11, RequestStep DEF IInv

\* A restore is admitted for a backup that succeeded.
LEMMA RestoreRequestKeeps ==
    ASSUME IInv, NEW x \in Restore, (\E b \in Backup : RequestRestore(x, b)) \/ StartRestore(x)
    PROVE  IInv'
<1>1. x \in Task /\ x \notin Import /\ x \notin Backup
  BY Zenon, ConstantsAssumption DEF Task
<1>2. task[x] \in TaskShape /\ Owned(x, task[x])
  BY <1>1, Facts
<1>3. UNCHANGED <<imp, dep, pods, vol, dir, archive, writes>>
  BY DEF RequestRestore, StartRestore, cluster, data
<1>4. DataOK'
  BY Zenon, <1>3, Costs DEF IInv, DataOK, RequestRestore, StartRestore
<1>5. ASSUME NEW b \in Backup, RequestRestore(x, b) PROVE IInv'
  <2> DEFINE k == [task[x] EXCEPT !.pc = "save_restoring", !.of = b]
  <2>1. k \in TaskShape /\ k.pc = "save_restoring" /\ k.of = b
    BY Zenon, <1>2 DEF TaskShape, TaskPc, Requesting, Task
  <2>2. task' = [task EXCEPT ![x] = k] /\ task[x].pc \in Requesting /\ bak[b].status = "succeeded" /\ mixed' = mixed
    BY Zenon, <1>5 DEF RequestRestore, At, Requesting
  <2> HIDE DEF k
  <2>3. Owned(x, k)
    BY Zenon, <1>1, <2>1 DEF Owned, RestorePc, Scaled, Copying
  <2>4. RowsOK' /\ RowsKept(x, FALSE)
    BY Zenon, <1>1, <1>5, RowsStay DEF IInv, RequestRestore
  <2>5. k.pc \in Requesting
    BY <2>1 DEF Requesting
  <2> QED
    BY Zenon, <1>1, <1>3, <1>4, <2>1, <2>2, <2>3, <2>4, <2>5, RequestStep DEF IInv
<1>6. ASSUME StartRestore(x) PROVE IInv'
  <2>1. task[x].pc = "save_restoring" /\ task[x].pc \in Requesting
    BY Zenon, <1>6 DEF StartRestore, At, Requesting
  <2>2. task[x].of \in Backup /\ bak[task[x].of].status = "succeeded"
    BY <1>1, <1>2, <2>1 DEF Owned, IInv, Recorded
  <2>3. RowsOK' /\ RowsKept(x, FALSE)
    <3> DEFINE row == [bak[task[x].of] EXCEPT !.restore = "running"]
    <3>1. row \in BackupShape /\ row.status = bak[task[x].of].status
      BY Zenon, <2>2 DEF IInv, RowsOK, BackupShape
    <3>2. bak' = bak \/ bak' = [bak EXCEPT ![task[x].of] = row]
      BY <1>6 DEF StartRestore
    <3> HIDE DEF row
    <3> QED
      BY <1>3, <2>2, <3>1, <3>2 DEF IInv, RowsOK, RowsKept
  <2>4. PICK pc \in {"locate", "done"} : Goto(x, pc) /\ IF pc = "locate" THEN Started(x) ELSE mixed' = mixed
    BY <1>6 DEF StartRestore
  <2> DEFINE k == IF pc = "done" THEN Ended(x) ELSE [task[x] EXCEPT !.pc = pc]
  <2>5. task' = [task EXCEPT ![x] = k]
    BY <2>4 DEF Goto
  <2>6. k \in TaskShape /\ k.pc = pc /\ (pc # "done" => k.of = task[x].of)
    BY <1>1, <1>2, Records DEF TaskShape, TaskPc
  <2> HIDE DEF k
  <2>7. Owned(x, k)
    BY Zenon, <1>1, <2>2, <2>6 DEF Owned, RestorePc, Scaled, Copying
  <2>8. Safe(x, k, dep, pods, vol, archive)
    BY <1>1, <2>6 DEF Safe, Copying
  <2>9. pc \in Requesting \union {"done"} <=> pc # "locate"
    BY DEF Requesting
  <2> QED
    BY Zenon, <1>1, <1>3, <1>4, <2>1, <2>2, <2>3, <2>4, <2>5, <2>6, <2>7, <2>8, <2>9, RequestStep DEF IInv
<1> QED
  BY <1>5, <1>6

\* Deleting the archives of an import touches none that a running task needs:
\* the record of the import is final, so its goroutine has ended.
LEMMA DeleteArchiveKeeps ==
    ASSUME IInv, NEW i \in Import, DeleteArchive(i)
    PROVE  IInv'
<1>1. i \in Task /\ i \notin Active /\ i \notin Backup
  BY ConstantsAssumption DEF Task, DeleteArchive, IInv, Recorded, Active, Finished
<1>2. UNCHANGED <<bak, task, dep, pods, vol, dir, writes, mixed>> /\ archive' = [archive EXCEPT ![i] = {}]
  BY DEF DeleteArchive, cluster
<1>3. DataOK'
  BY Zenon, <1>2, Costs DEF IInv, DataOK, DeleteArchive
<1>4. RowsOK' /\ RowsKept(i, FALSE)
  <2> DEFINE row == [imp[i] EXCEPT !.deleted = TRUE]
  <2>1. row \in ImportShape /\ row.status = imp[i].status
    BY Zenon DEF IInv, RowsOK, ImportShape
  <2>2. imp' = imp \/ imp' = [imp EXCEPT ![i] = row]
    BY DEF DeleteArchive
  <2> HIDE DEF row
  <2> QED
    BY <1>2, <2>1, <2>2 DEF IInv, RowsOK, RowsKept
<1>5. Active' = Active /\ TasksOK' /\ Alone'
  BY Zenon, <1>2 DEF IInv, TasksOK, Active, Alone
<1>6. Recorded'
  <2>1. \A j \in Import : imp'[j].status \in Finished => imp[j].status \in Finished
    BY <1>4 DEF RowsKept
  <2> QED
    BY <1>2, <2>1 DEF IInv, Recorded
<1>7. AllSafe'
  <2> SUFFICES ASSUME NEW t \in Active, t \notin mixed
               PROVE  Safe(t, task[t], dep, pods, vol, archive')
    BY Zenon, <1>2, <1>5 DEF AllSafe
  <2>1. t \in Task /\ t # i /\ Safe(t, task[t], dep, pods, vol, archive)
    BY Zenon, <1>1 DEF IInv, AllSafe, Active
  <2>2. t \in Import \union Backup => archive'[t] = archive[t]
    BY <1>2, <2>1 DEF IInv, DataOK
  <2>3. t \in Restore => task[t].of \in Backup
    BY <2>1 DEF IInv, TasksOK, Owned, Active, Requesting
  <2>4. t \in Restore => archive'[task[t].of] = archive[task[t].of]
    BY Zenon, <1>1, <1>2, <2>3 DEF IInv, DataOK
  <2> QED
    BY <2>1, <2>2, <2>4 DEF Safe
<1> QED
  BY <1>3, <1>4, <1>5, <1>6, <1>7 DEF IInv

\* An expired deadline changes no place.
LEMMA DeadlineKeeps ==
    ASSUME IInv, NEW t \in Task, Deadline(t)
    PROVE  IInv'
<1> DEFINE k == [task[t] EXCEPT !.ctx = "expired"]
<1>1. task[t] \in TaskShape /\ Owned(t, task[t]) /\ (t \notin mixed => Safe(t, task[t], dep, pods, vol, archive))
  BY Facts DEF Deadline
<1>2. /\ k \in TaskShape /\ k.pc = task[t].pc /\ k.replicas = task[t].replicas /\ k.undo = task[t].undo
      /\ k.of = task[t].of /\ k.seen = task[t].seen /\ k.sum = task[t].sum
  BY <1>1 DEF TaskShape
<1>3. /\ t \in Active /\ task' = [task EXCEPT ![t] = k]
      /\ UNCHANGED <<imp, bak, dep, pods, vol, dir, archive, writes, mixed>>
  BY DEF Deadline, cluster, data
<1> HIDE DEF k
<1>4. Owned(t, k) /\ (t \notin mixed => Safe(t, k, dep', pods', vol', archive'))
  BY <1>1, <1>2, <1>3 DEF Owned, Safe
<1>5. k.pc \notin Requesting /\ k.pc # "done"
  BY Zenon, <1>2, <1>3 DEF Active
<1>6. RowsOK' /\ RowsKept(t, FALSE)
  BY Zenon, <1>3, RowsStay DEF IInv
<1>7. DataOK'
  <2>1. "deadline" \in TroubleKind
    BY DEF TroubleKind
  <2> QED
    BY <1>3, <2>1, Counted DEF IInv, DataOK, Deadline
<1> QED
  BY Zenon, <1>2, <1>3, <1>4, <1>5, <1>6, <1>7, Step DEF IInv

\* After a crash nothing is under way.
LEMMA CrashKeeps ==
    ASSUME IInv, Crash
    PROVE  IInv'
<1>1. UNCHANGED <<imp, bak, dep, pods, vol, dir, archive, writes, mixed>>
  BY Zenon DEF Crash, cluster, data
<1>2. task' = [t \in Task |-> IF task[t].pc = "idle" THEN task[t] ELSE Ended(t)]
  BY DEF Crash, At
<1>3. DataOK'
  <2>1. "crash" \in TroubleKind
    BY DEF TroubleKind
  <2> QED
    BY Zenon, <1>1, <2>1, Counted DEF IInv, DataOK, Crash
<1>4. \A t \in Task : /\ task'[t] \in TaskShape /\ Owned(t, task'[t]) /\ task'[t].pc \in {"idle", "done"}
                      /\ task[t].pc = "done" => task'[t].pc = "done"
                      /\ task'[t].pc = "idle" => task'[t] = task[t]
  BY Zenon, <1>2, Records DEF IInv, TasksOK
<1>5. Active' = {}
  BY Zenon, <1>4 DEF Active, Requesting
<1>6. TasksOK'
  <2>1. \A i \in Import : task'[i].pc \in Requesting => task'[i].pc = "idle"
    BY Zenon, <1>4 DEF Task, Requesting
  <2>2. \A i \in Import : task'[i].pc = "idle" => task'[i].seen = {}
    BY Zenon, <1>4 DEF IInv, TasksOK, Task, Requesting
  <2>3. task' \in [Task -> TaskShape]
    BY Zenon, <1>2, <1>4
  <2> QED
    BY Zenon, <1>1, <1>4, <2>1, <2>2, <2>3 DEF IInv, TasksOK
<1>7. Recorded'
  BY <1>1, <1>4 DEF IInv, Recorded, Task
<1>8. Alone' /\ AllSafe'
  BY Zenon, <1>5 DEF Alone, AllSafe
<1> QED
  BY Zenon, <1>1, <1>3, <1>6, <1>7, <1>8 DEF IInv, RowsOK

\* Pods start only when the Deployment has replicas, and only a running pod
\* writes: neither happens while a task relies on a stopped workload.
LEMMA ClusterKeeps ==
    ASSUME IInv, StartPod \/ StopPod \/ AppWrite \/ SourceChange
    PROVE  IInv'
<1>1. UNCHANGED <<imp, bak, task, dep, archive, mixed, trouble>>
  BY Zenon DEF StartPod, StopPod, AppWrite, SourceChange, cluster, data
<1>2. /\ vol \subseteq vol' /\ (vol' # vol => pods)
      /\ pods' => pods \/ dep > 0
  BY DEF StartPod, StopPod, AppWrite, SourceChange, cluster, data
<1>3. DataOK'
  <2>1. MaxWrites \in Nat
    BY Zenon, ConstantsAssumption
  <2>2. CASE AppWrite
    <3>1. writes + 1 \in 1..MaxWrites /\ UNCHANGED <<pods, dir>>
      BY <2>1, <2>2 DEF AppWrite, IInv, DataOK, cluster
    <3> QED
      BY <1>1, <2>1, <2>2, <3>1 DEF AppWrite, IInv, DataOK, File
  <2>3. CASE SourceChange
    BY Zenon, <1>1, <2>3 DEF SourceChange, IInv, DataOK, cluster
  <2>4. CASE StartPod \/ StopPod
    BY Zenon, <1>1, <2>4 DEF StartPod, StopPod, IInv, DataOK, data
  <2> QED
    BY <2>2, <2>3, <2>4
<1>4. RowsOK' /\ Recorded' /\ TasksOK' /\ Alone' /\ Active' = Active
  BY Zenon, <1>1 DEF IInv, RowsOK, Recorded, TasksOK, Alone, Active
<1>5. AllSafe'
  <2> SUFFICES ASSUME NEW t \in Active, t \notin mixed
               PROVE  Safe(t, task[t], dep, pods', vol', archive)
    BY <1>1, <1>4 DEF AllSafe
  <2>1. t \in Task /\ Safe(t, task[t], dep, pods, vol, archive)
    BY Zenon DEF IInv, AllSafe, Active
  <2>2. task[t].pc \in Copying => ~pods' /\ vol' = vol
    BY <1>2, <2>1 DEF Safe, IInv, DataOK
  <2> QED
    BY Zenon, <1>2, <2>1, <2>2 DEF Safe, Copying
<1> QED
  BY Zenon, <1>3, <1>4, <1>5 DEF IInv

-----------------------------------------------------------------------------
(* The theorems.                                                           *)

\* Initially nothing runs.
LEMMA InitInv == Init => IInv
<1> SUFFICES ASSUME Init PROVE IInv
  OBVIOUS
<1>1. \A t \in Task : /\ task[t] = New(t) /\ New(t) \in TaskShape /\ New(t).pc = "idle" /\ Owned(t, New(t))
                      /\ New(t).seen = {}
  BY Zenon, Records DEF Init, New
<1>2. Active = {}
  BY <1>1 DEF Active, Requesting
<1>3. TasksOK
  BY Zenon, <1>1 DEF Init, TasksOK, Task
<1>4. Recorded
  BY Zenon, <1>1 DEF Init, Recorded, Finished, Task
<1>5. DataOK
  <2>1. MaxTrouble \in Nat /\ MaxWrites \in Nat /\ Initial \subseteq Source
    BY ConstantsAssumption
  <2>2. trouble = << >>
    BY Zenon DEF Init
  <2>3. Len(trouble) = 0 /\ trouble \in Seq(TroubleKind)
    BY <2>2
  <2>4. vol = {} /\ dir = Initial /\ archive = [t \in Import \union Backup |-> {}]
    BY Zenon DEF Init
  <2>5. dep = 1 /\ pods = TRUE /\ writes = 0
    BY Zenon DEF Init
  <2>6. 0 \in 0..MaxWrites /\ 0 <= MaxTrouble
    BY <2>1
  <2> QED
    BY <2>1, <2>3, <2>4, <2>5, <2>6 DEF DataOK
<1>6. RowsOK
  BY Zenon DEF Init, RowsOK, ImportShape, ImportStatus, BackupShape
<1> QED
  BY <1>2, <1>3, <1>4, <1>5, <1>6 DEF IInv, Alone, AllSafe

\* Every step keeps the invariant.
LEMMA NextKeeps ==
    ASSUME IInv, [Next]_vars
    PROVE  IInv'
<1>1. ASSUME NEW i \in Import, (\E c \in BOOLEAN : RequestImport(i, c)) \/ InsertImport(i) \/ StartImport(i)
      PROVE  IInv'
  BY Zenon, <1>1, ImportRequestKeeps
<1>2. ASSUME NEW i \in Import, DeleteArchive(i) PROVE IInv'
  BY Zenon, <1>2, DeleteArchiveKeeps
<1>3. ASSUME NEW b \in Backup, CreateBackup(b) PROVE IInv'
  BY Zenon, <1>3, CreateBackupKeeps
<1>4. ASSUME NEW x \in Restore, (\E b \in Backup : RequestRestore(x, b)) \/ StartRestore(x) PROVE IInv'
  BY Zenon, <1>4, RestoreRequestKeeps
<1>5. ASSUME NEW t \in Import \union Restore, CommonStep(t) PROVE IInv'
  BY Zenon, <1>5, StopKeeps, ClearKeeps, StreamKeeps, ScaleUpKeeps, RestoreReplicasKeeps, FinishKeeps DEF CommonStep
<1>6. ASSUME NEW i \in Import, ImportStep(i) PROVE IInv'
  BY Zenon, <1>6, ProgressKeeps, PreflightKeeps, ArchiveKeeps, SumsKeep, VerifiedKeeps, ReadyKeeps, RollbackKeeps
     DEF ImportStep
<1>7. ASSUME NEW b \in Backup, BackupStep(b) PROVE IInv'
  BY Zenon, <1>7, SaveBackupKeeps, CopyKeeps DEF BackupStep
<1>8. ASSUME NEW x \in Restore, Locate(x) PROVE IInv'
  BY Zenon, <1>8, StopKeeps
<1>9. ASSUME NEW t \in Task, Goroutine(t) PROVE IInv'
  BY Zenon, <1>5, <1>6, <1>7, <1>8, <1>9 DEF Goroutine
<1>10. ASSUME NEW t \in Task, Deadline(t) PROVE IInv'
  BY <1>10, DeadlineKeeps
<1>11. ASSUME Crash \/ StartPod \/ StopPod \/ AppWrite \/ SourceChange PROVE IInv'
  BY <1>11, CrashKeeps, ClusterKeeps
<1>12. ASSUME UNCHANGED vars PROVE IInv'
  BY Zenon, <1>12 DEF vars, IInv, DataOK, RowsOK, Recorded, TasksOK, Alone, AllSafe, Active
<1> QED
  BY Zenon, <1>1, <1>2, <1>3, <1>4, <1>9, <1>10, <1>11, <1>12 DEF Next

\* The invariant holds throughout.
THEOREM Invariance == Spec => []IInv
BY InitInv, NextKeeps, PTL DEF Spec

\* Whatever step of an import fails, the data it found on the volume is still
\* there or in its archive for as long as the import runs and no other task runs
\* beside it.
THEOREM DataKept == Spec => []ImportKeepsData
<1>1. IInv => ImportKeepsData
  BY Zenon, Facts DEF ImportKeepsData, Safe, Task
<1> QED
  BY <1>1, Invariance, PTL

\* The state is well formed, and no pod of the application runs while a task
\* that runs alone archives, clears, fills or verifies the volume.
THEOREM Quiet == Spec => []CopiesQuiet
<1>1. IInv => TypeOK
  BY Zenon DEF IInv, DataOK, RowsOK, TasksOK, TypeOK, TaskShape, ImportShape, BackupShape, TroubleKind
<1>2. IInv => QuietVolume
  BY Facts DEF QuietVolume, Safe, Active
<1> QED
  BY <1>1, <1>2, Invariance, PTL DEF CopiesQuiet

\* A restore that goes on to start the workload has replaced the contents of the
\* volume by exactly those of a backup that is still recorded as succeeded.
THEOREM Exact == Spec => []RestoreExact
<1>1. ASSUME IInv PROVE RestoreExact
  <2> SUFFICES ASSUME NEW x \in Restore, x \in Active, task[x].pc = "scale_up", x \notin mixed
               PROVE  vol = archive[task[x].of] /\ bak[task[x].of].status = "succeeded"
    BY DEF RestoreExact, At
  <2>1. Safe(x, task[x], dep, pods, vol, archive)
    BY <1>1 DEF IInv, AllSafe
  <2> QED
    BY Zenon, <1>1, <2>1 DEF Safe, IInv, Recorded
<1> QED
  BY <1>1, Invariance, PTL

\* Only SaveVerified records an import as verified.
LEMMA VerifiedBy ==
    ASSUME IInv, [Next]_vars, NEW i \in Import, ~imp[i].verified, imp'[i].verified
    PROVE  SaveVerified(i)
<1>1. imp \in [Import -> ImportShape]
  BY DEF IInv, RowsOK
<1>2. imp' # imp
  OBVIOUS
<1>3. ASSUME NEW j \in Import, NEW status, NEW w, SaveImport(j, status, w) PROVE FALSE
  BY <1>1, <1>3 DEF SaveImport, ImportShape
<1>4. ASSUME NEW j \in Import, NEW c \in BOOLEAN, RequestImport(j, c) PROVE FALSE
  BY <1>1, <1>4 DEF RequestImport, ImportShape
<1>5. ASSUME NEW j \in Import, DeleteArchive(j) PROVE FALSE
  BY Zenon, <1>1, <1>5 DEF DeleteArchive, ImportShape
<1>6. ASSUME NEW j \in Import, InsertImport(j) \/ StartImport(j) PROVE FALSE
  BY <1>2, <1>3, <1>6 DEF InsertImport, StartImport
<1>7. ASSUME NEW j \in Import, SaveVerified(j) PROVE SaveVerified(i)
  BY Zenon, <1>1, <1>7 DEF SaveVerified, ImportShape
<1>8. ASSUME NEW j \in Import, ImportStep(j) PROVE SaveVerified(i)
  BY Zenon, <1>2, <1>3, <1>7, <1>8 DEF ImportStep, Progress, Preflight, SaveBackingUp, ArchiveSource, ArchiveTarget, SumSource,
     SumTarget, WaitReady, Rollback
<1>9. ASSUME NEW t \in Import \union Restore, CommonStep(t) PROVE FALSE
  BY Zenon, <1>2, <1>3, <1>9 DEF CommonStep, ScaleDown, WaitStopped, Clear, Stream, ScaleUp, RestoreReplicas, Finish
<1>10. ASSUME NEW x \in Restore, (\E b \in Backup : RequestRestore(x, b)) \/ StartRestore(x) \/ Locate(x) PROVE FALSE
  BY <1>2, <1>10 DEF RequestRestore, StartRestore, Locate
<1>11. ASSUME NEW b \in Backup, CreateBackup(b) \/ BackupStep(b) PROVE FALSE
  BY <1>2, <1>11 DEF CreateBackup, BackupStep, SaveBackup, CopyBegin, CopyEnd
<1>12. ASSUME NEW t \in Task, Deadline(t) PROVE FALSE
  BY <1>2, <1>12 DEF Deadline
<1>13. ASSUME Crash \/ StartPod \/ StopPod \/ AppWrite \/ SourceChange \/ UNCHANGED vars PROVE FALSE
  BY Zenon, <1>2, <1>13 DEF Crash, StartPod, StopPod, AppWrite, SourceChange, vars
<1>14. ASSUME NEW t \in Task, Goroutine(t) PROVE SaveVerified(i)
  BY <1>8, <1>9, <1>10, <1>11, <1>14 DEF Goroutine
<1> QED
  BY Zenon, <1>4, <1>5, <1>6, <1>10, <1>11, <1>12, <1>13, <1>14 DEF Next

\* Only the last save of a backup whose copy succeeded records it as succeeded.
LEMMA SucceededBy ==
    ASSUME IInv, [Next]_vars, NEW b \in Backup, bak[b].status # "succeeded", bak'[b].status = "succeeded"
    PROVE  task[b].pc = "save_succeeded" /\ b \in Active
<1>1. bak \in [Backup -> BackupShape]
  BY Zenon DEF IInv, RowsOK
<1>2. bak' # bak
  OBVIOUS
<1>3. ASSUME NEW c \in Backup, NEW restore, bak' = [bak EXCEPT ![c].restore = restore] PROVE FALSE
  BY Zenon, <1>1, <1>3 DEF BackupShape
<1>4. ASSUME NEW i \in Import,
             ImportStep(i) \/ (\E c \in BOOLEAN : RequestImport(i, c)) \/ InsertImport(i) \/ StartImport(i) \/ DeleteArchive(i)
      PROVE  FALSE
  BY Zenon, <1>2, <1>4 DEF ImportStep, Progress, Preflight, SaveBackingUp, ArchiveSource, ArchiveTarget, SumSource,
     SumTarget, SaveVerified, WaitReady, Rollback, RequestImport, InsertImport, StartImport, DeleteArchive
<1>5. ASSUME NEW x \in Restore PROVE task[x].pc \notin {"idle", "done"} => task[x].of \in Backup
  BY Zenon DEF IInv, TasksOK, Owned, Task
<1>6. ASSUME NEW t \in Import \union Restore, CommonStep(t) PROVE FALSE
  <2>1. ASSUME NEW status \in Finished, Finish(t, status) PROVE FALSE
    <3>1. t \in Restore /\ bak' = [bak EXCEPT ![task[t].of].restore = status]
      BY <1>2, <2>1 DEF Finish
    <3> QED
      BY <1>3, <1>5, <2>1, <3>1 DEF Finish, At
  <2> QED
    BY <1>2, <1>6, <2>1 DEF CommonStep, ScaleDown, WaitStopped, Clear, Stream, ScaleUp, RestoreReplicas
<1>7. ASSUME NEW x \in Restore, (\E c \in Backup : RequestRestore(x, c)) \/ StartRestore(x) \/ Locate(x) PROVE FALSE
  <2>1. StartRestore(x)
    BY <1>2, <1>7 DEF RequestRestore, Locate
  <2>2. bak' = [bak EXCEPT ![task[x].of].restore = "running"]
    BY <1>2, <2>1 DEF StartRestore
  <2> QED
    BY <1>3, <1>5, <2>1, <2>2 DEF StartRestore, At
<1>8. ASSUME NEW c \in Backup, CreateBackup(c) \/ BackupStep(c) PROVE task[b].pc = "save_succeeded"
  BY Zenon, <1>1, <1>2, <1>8 DEF CreateBackup, BackupStep, SaveBackup, CopyBegin, CopyEnd, BackupShape, At
<1>9. ASSUME NEW t \in Task, Deadline(t) PROVE FALSE
  BY <1>2, <1>9 DEF Deadline
<1>10. ASSUME Crash \/ StartPod \/ StopPod \/ AppWrite \/ SourceChange \/ UNCHANGED vars PROVE FALSE
  BY <1>2, <1>10 DEF Crash, StartPod, StopPod, AppWrite, SourceChange, vars
<1>11. ASSUME NEW t \in Task, Goroutine(t) PROVE task[b].pc = "save_succeeded"
  BY ZenonT(40), <1>4, <1>6, <1>7, <1>8, <1>11 DEF Goroutine
<1>12. task[b].pc = "save_succeeded"
  BY <1>4, <1>7, <1>8, <1>9, <1>10, <1>11 DEF Next
<1> QED
  BY Zenon, <1>12 DEF Active, Requesting, Task

\* An import is recorded as verified, and a backup as succeeded, only when the
\* data says so: the volume holds what was summed on the host, the archive what
\* was on the volume throughout the copy.
THEOREM Truthful == Spec => RecordedTruly
<1>1. ASSUME IInv, [Next]_vars, NEW i \in Import, ~imp[i].verified, imp'[i].verified, i \notin mixed
      PROVE  vol = task[i].sum
  <2>1. task[i].pc = "save_verified" /\ i \in Task
    BY Zenon, <1>1, VerifiedBy DEF SaveVerified, At, Task
  <2>2. i \in Active
    BY <2>1 DEF Active, Requesting
  <2> QED
    BY <1>1, <2>1, <2>2, Facts DEF Safe
<1>2. ASSUME IInv, [Next]_vars, NEW b \in Backup, bak[b].status # "succeeded", bak'[b].status = "succeeded", b \notin mixed
      PROVE  task[b].seen \subseteq archive[b]
  BY <1>2, SucceededBy, Facts DEF Safe, Task
<1> DEFINE A == /\ \A i \in Import : ~imp[i].verified /\ imp'[i].verified /\ i \notin mixed => vol = task[i].sum
                /\ \A b \in Backup : bak[b].status # "succeeded" /\ bak'[b].status = "succeeded" /\ b \notin mixed =>
                      task[b].seen \subseteq archive[b]
<1>3. IInv /\ [Next]_vars => [A]_vars
  BY <1>1, <1>2
<1> QED
  BY <1>3, Invariance, PTL DEF Spec, RecordedTruly

\* A task that runs alone and ends leaves the Deployment with the replicas it
\* found, unless it could not stop the workload or a call that restores the
\* replicas failed.
THEOREM Restored == Spec => ReplicasRestored
<1>1. ASSUME IInv, NEW t \in Import \union Restore, task[t].pc \in {"save_failed", "save_succeeded"},
             t \notin mixed, task[t].undo \notin {"record", "broken"}
      PROVE  dep = task[t].replicas
  <2>1. t \in Task /\ t \in Active /\ t \notin Backup
    BY Zenon, <1>1, ConstantsAssumption DEF Active, Requesting, Task
  <2>2. task[t] \in TaskShape /\ Owned(t, task[t]) /\ Safe(t, task[t], dep, pods, vol, archive)
    BY Zenon, <1>1, <2>1, Facts
  <2>3. task[t].pc = "save_failed" => task[t].undo = "restore"
    BY Zenon, <1>1, <2>1, <2>2 DEF Owned, TaskShape
  <2> QED
    BY Zenon, <1>1, <2>2, <2>3 DEF Safe
<1> DEFINE A == \A t \in Import \union Restore :
                  /\ task[t].pc \in {"save_failed", "save_succeeded"} /\ task'[t].pc = "done"
                  /\ t \notin mixed /\ task[t].undo \notin {"record", "broken"}
                  => dep = task[t].replicas
<1>2. IInv /\ [Next]_vars => [A]_vars
  BY <1>1
<1> QED
  BY <1>2, Invariance, PTL DEF Spec, ReplicasRestored

=============================================================================
