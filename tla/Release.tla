------------------------------ MODULE Release ------------------------------
(***************************************************************************)
(* Releases of one application: the HTTP requests that create them         *)
(* (create from a template, restart, retry, roll back) and the goroutines  *)
(* that execute them against Kubernetes.                                   *)
(*                                                                         *)
(* Sources: internal/service/application/release_execution.go,             *)
(* release_workflow.go, kubernetes_applier.go,                             *)
(* internal/store/application_release_repository.go and                    *)
(* internal/api/application/release_handler.go.                            *)
(*                                                                         *)
(* Requests and executors run concurrently and nothing serialises two      *)
(* releases of one application.  Every read or write of a database row and *)
(* every Kubernetes write is a step of its own.  A database call may fail  *)
(* (MaxDBFaults bounds how often) and the process may crash (MaxCrashes):  *)
(* rows and cluster objects survive a crash, requests and executors do     *)
(* not, and nothing resumes them.                                          *)
(***************************************************************************)
EXTENDS Naturals

CONSTANTS
  ReleaseId,    \* primary keys of the rows
  Request,      \* the HTTP requests of a behaviour
  Image,        \* image references; stand for the whole desired spec
  Template,     \* deployment templates a release can be attributed to
  None,         \* a NULL column
  MaxDBFaults,  \* how many database calls may fail
  MaxCrashes    \* how often the process may crash

ASSUME ConstantsAssumption ==
  /\ None \notin ReleaseId \cup Template \cup Image
  /\ MaxDBFaults \in Nat
  /\ MaxCrashes \in Nat

VARIABLES
  rel,       \* the releases table: row of every id, status "absent" if none
  op,        \* the release_operations table: status of each step's row
  req,       \* local state of the requests
  exec,      \* local state of the executors, one per release
  cluster,   \* which release's object Kubernetes holds, per resource
  ready,     \* the workload controller reports the current workload ready
  readied,   \* history: releases whose own workload was reported ready
  solo,      \* history: releases executed while no other executor ran
  dbFaults,  \* database calls that failed so far
  crashes    \* crashes so far

vars == <<rel, op, req, exec, cluster, ready, readied, solo, dbFaults, crashes>>

Terminal == {"succeeded", "failed"}

InProgress == {"validating", "applying", "waiting_ready"}

Status == {"absent", "draft"} \cup InProgress \cup Terminal

Step == {"verify_image", "preflight", "apply_resources", "sync_endpoints", "wait_ready"}

Resource == {"config", "workload", "service"}

Row == [seq : Nat, image : Image \cup {None}, template : Template \cup {None},
        source : ReleaseId \cup {None}, status : Status]

NoRow == [seq |-> 0, image |-> None, template |-> None, source |-> None,
          status |-> "absent"]

Existing == {r \in ReleaseId : rel[r].status # "absent"}

Succeeded == {r \in Existing : rel[r].status = "succeeded"}

(* r is the row an "ORDER BY sequence DESC" query returns first out of S. *)
IsLatest(r, S) == r \in S /\ \A x \in S : rel[x].seq <= rel[r].seq

(* The executors that still run. *)
Active == {r \in ReleaseId : exec[r].pc \notin {"none", "done"}}

(* A database call that may fail does so here; the caller handles it. *)
DBFault == dbFaults < MaxDBFaults /\ dbFaults' = dbFaults + 1

DBOk == UNCHANGED dbFaults

RequestKind == {"create", "restart", "retry", "rollback"}

IdleRequest == [pc |-> "idle", kind |-> "create", base |-> None, source |-> None, seq |-> 0,
                rid |-> None, image |-> None, template |-> None]

IdleExec == [pc |-> "none", phase |-> "begin", res |-> "config", mem |-> NoRow]

Init ==
  /\ rel = [r \in ReleaseId |-> NoRow]
  /\ op = [r \in ReleaseId |-> [s \in Step |-> "none"]]
  /\ req = [q \in Request |-> IdleRequest]
  /\ exec = [r \in ReleaseId |-> IdleExec]
  /\ cluster = [x \in Resource |-> None]
  /\ ready = FALSE
  /\ readied = {}
  /\ solo = {}
  /\ dbFaults = 0
  /\ crashes = 0

-----------------------------------------------------------------------------
(* Requests.  Begin reads what the release is derived from; the sequence   *)
(* number is read by a second query and the row is inserted by a third.    *)

EndRequest(q) == req' = [req EXCEPT ![q] = [@ EXCEPT !.pc = "done"]]

Derive(q, kind, base, source, image, template) ==
  req' = [req EXCEPT ![q] = [IdleRequest EXCEPT !.pc = "list", !.kind = kind, !.base = base,
                              !.source = source, !.image = image, !.template = template]]

BeginCreate(q) ==
  \E i \in Image, t \in Template : Derive(q, "create", None, None, i, t)

(* Restart takes the image of the latest successful release. *)
BeginRestart(q) ==
  \E r \in Succeeded, t \in Template :
    /\ IsLatest(r, Succeeded)
    /\ Derive(q, "restart", r, None, rel[r].image, t)

(* A release of any status can be retried. *)
BeginRetry(q) ==
  \E r \in Existing : Derive(q, "retry", r, None, rel[r].image, rel[r].template)

(* Mutant: rollback without the test of the candidate's status. *)
BeginRollbackAnyStatus(q) ==
  \E current \in Existing :
    LET earlier == {r \in Existing : rel[r].seq < rel[current].seq}
    IN  \E r \in earlier :
          /\ IsLatest(r, earlier)
          /\ Derive(q, "rollback", r, r, rel[r].image, rel[r].template)

(* Rollback re-deploys the latest success that precedes the current one. *)
BeginRollback(q) ==
  \E current \in Existing :
    LET earlier == {r \in Succeeded : rel[r].seq < rel[current].seq}
    IN  \E r \in earlier :
          /\ IsLatest(r, earlier)
          /\ Derive(q, "rollback", r, r, rel[r].image, rel[r].template)

Begin(q) ==
  /\ req[q].pc = "idle"
  /\ BeginCreate(q) \/ BeginRestart(q) \/ BeginRetry(q) \/ BeginRollback(q)
  /\ UNCHANGED <<rel, op, exec, cluster, ready, readied, dbFaults, solo, crashes>>

(* CreateRelease: the next sequence number is computed from a query. *)
ListReleases(q) ==
  /\ req[q].pc = "list"
  /\ \/ /\ Existing = {}
        /\ req' = [req EXCEPT ![q] = [@ EXCEPT !.pc = "insert", !.seq = 1]]
     \/ \E r \in Existing :
          /\ IsLatest(r, Existing)
          /\ req' = [req EXCEPT ![q] = [@ EXCEPT !.pc = "insert", !.seq = rel[r].seq + 1]]
  /\ UNCHANGED <<rel, op, exec, cluster, ready, readied, dbFaults, solo, crashes>>

(* Mutant: the table without its unique index. *)
NoUniqueIndex(n) == FALSE

(* The unique index on (application_id, sequence). *)
SequenceTaken(n) == \E r \in Existing : rel[r].seq = n

(* CreateRelease: the row of a new release, as the request holds it. *)
DraftRow(q) ==
  [NoRow EXCEPT !.seq = req[q].seq, !.image = req[q].image, !.status = "draft"]

(* Mutant: execution begins with the insert, before the second save. *)
InsertReleaseLaunching(q) ==
  /\ req[q].pc = "insert"
  /\ ~SequenceTaken(req[q].seq)
  /\ \E r \in ReleaseId \ Existing :
       /\ rel' = [rel EXCEPT ![r] = DraftRow(q)]
       /\ req' = [req EXCEPT ![q] = [@ EXCEPT !.pc = "save", !.rid = r]]
       /\ exec' = [exec EXCEPT ![r] = [@ EXCEPT !.pc = "queued"]]
  /\ UNCHANGED <<op, cluster, ready, readied, dbFaults, solo, crashes>>

(* CreateRelease: the insert of the draft. *)
InsertRelease(q) ==
  /\ req[q].pc = "insert"
  /\ \/ /\ SequenceTaken(req[q].seq)
        /\ EndRequest(q)
        /\ DBOk /\ UNCHANGED rel
     \/ /\ ~SequenceTaken(req[q].seq)
        /\ \E r \in ReleaseId \ Existing :
             /\ rel' = [rel EXCEPT ![r] = DraftRow(q)]
             /\ req' = [req EXCEPT ![q] = [@ EXCEPT !.pc = "save", !.rid = r]]
        /\ DBOk
     \/ DBFault /\ EndRequest(q) /\ UNCHANGED rel
  /\ UNCHANGED <<op, exec, cluster, ready, readied, solo, crashes>>

(* The second write of the row: template and, for a rollback, source. *)
SaveAttribution(q) ==
  /\ req[q].pc = "save"
  /\ \/ /\ rel' = [rel EXCEPT ![req[q].rid] = [DraftRow(q) EXCEPT !.template = req[q].template,
                                                                  !.source = req[q].source]]
        /\ req' = [req EXCEPT ![q] = [@ EXCEPT !.pc = "launch"]]
        /\ DBOk
     \/ DBFault /\ EndRequest(q) /\ UNCHANGED rel
  /\ UNCHANGED <<op, exec, cluster, ready, readied, solo, crashes>>

(* Mutant: a retry executes the old release instead of the new one. *)
LaunchRetryInPlace(q) ==
  /\ req[q].pc = "launch"
  /\ LET r == IF req[q].kind = "retry" THEN req[q].base ELSE req[q].rid
     IN  exec' = [exec EXCEPT ![r] = [IdleExec EXCEPT !.pc = "queued"]]
  /\ EndRequest(q)
  /\ UNCHANGED <<rel, op, cluster, ready, readied, dbFaults, solo, crashes>>

(* ExecuteAsync.  Except for a restart, a check that runs after the draft  *)
(* is stored (PrepareRuntimeSpec, SyncManagedFiles, a database read) can   *)
(* still end the request, and the draft is then never executed.            *)
Launch(q) ==
  /\ req[q].pc = "launch"
  /\ \/ exec' = [exec EXCEPT ![req[q].rid] = [IdleExec EXCEPT !.pc = "queued"]]
     \/ req[q].kind # "restart" /\ UNCHANGED exec
  /\ EndRequest(q)
  /\ UNCHANGED <<rel, op, cluster, ready, readied, dbFaults, solo, crashes>>

-----------------------------------------------------------------------------
(* Executors: executeRelease, runStep, transition and failRelease.         *)

(* transition: the whole row the executor holds in memory is saved. *)
Advanced(row, status) == [row EXCEPT !.status = status]

Finish(r) == exec' = [exec EXCEPT ![r] = [@ EXCEPT !.pc = "done"]]

Transition(r, row, status, pc) ==
  \/ /\ rel' = [rel EXCEPT ![r] = Advanced(row, status)]
     /\ exec' = [exec EXCEPT ![r] = [@ EXCEPT !.mem = Advanced(row, status), !.pc = pc]]
     /\ DBOk
  \/ DBFault /\ Finish(r) /\ UNCHANGED rel

(* While another executor runs, neither of the two runs alone. *)
SoloAfterStart(r) == IF Active = {r} THEN solo \cup {r} ELSE solo \ Active

(* GetRelease, RenderResources and the first transition. *)
StartExecution(r) ==
  /\ exec[r].pc = "queued"
  /\ \/ /\ rel' = [rel EXCEPT ![r] = Advanced(rel[r], "validating")]
        /\ exec' = [exec EXCEPT ![r] = [@ EXCEPT !.mem = Advanced(rel[r], "validating"),
                                                     !.pc = "verify_image"]]
        /\ solo' = SoloAfterStart(r)
        /\ DBOk
     \/ exec' = [exec EXCEPT ![r] = [@ EXCEPT !.pc = "failing"]] /\ DBOk /\ UNCHANGED <<rel, solo>>
     \/ DBFault /\ Finish(r) /\ UNCHANGED <<rel, solo>>
  /\ UNCHANGED <<op, req, cluster, ready, readied, crashes>>

(* runStep up to the call: the operation and its log row are inserted. *)
BeginStep(r) ==
  /\ exec[r].pc \in Step
  /\ exec[r].phase = "begin"
  /\ \/ /\ op' = [op EXCEPT ![r] = [@ EXCEPT ![exec[r].pc] = "running"]]
        /\ exec' = [exec EXCEPT ![r] = [@ EXCEPT !.phase = "run"]]
        /\ DBOk
     \/ /\ DBFault
        /\ op' \in {op, [op EXCEPT ![r] = [@ EXCEPT ![exec[r].pc] = "running"]]}
        /\ exec' = [exec EXCEPT ![r] = [@ EXCEPT !.pc = "failing"]]
  /\ UNCHANGED <<rel, req, cluster, ready, readied, solo, crashes>>

(* What executeRelease does after each step succeeded. *)
After ==
  [s \in Step |->
     CASE s = "verify_image" -> "preflight"
       [] s = "preflight" -> "to_applying"
       [] s = "apply_resources" -> "sync_endpoints"
       [] s = "sync_endpoints" -> "to_waiting_ready"
       [] s = "wait_ready" -> "to_succeeded"]

(* Mutant: a database error does not end the execution. *)
StepDoneIgnoringDBError(r, result) ==
  LET s == exec[r].pc
  IN  /\ \/ op' = [op EXCEPT ![r] = [@ EXCEPT ![s] = result]] /\ DBOk
         \/ DBFault /\ UNCHANGED op
      /\ exec' = [exec EXCEPT ![r] = [@ EXCEPT !.phase = "begin",
                                !.pc = IF result = "success" THEN After[s] ELSE "failing"]]

(* runStep after the call: its result is recorded.  An error of the        *)
(* database replaces the result of the step.                               *)
StepDone(r, result) ==
  LET s == exec[r].pc
  IN  \/ /\ op' = [op EXCEPT ![r] = [@ EXCEPT ![s] = result]]
         /\ exec' = [exec EXCEPT ![r] = [@ EXCEPT !.phase = "begin",
                                !.pc = IF result = "success" THEN After[s] ELSE "failing"]]
         /\ DBOk
      \/ /\ DBFault
         /\ op' \in {op, [op EXCEPT ![r] = [@ EXCEPT ![s] = result]]}
         /\ exec' = [exec EXCEPT ![r] = [@ EXCEPT !.phase = "begin", !.pc = "failing"]]

(* VerifyImage, Preflight and the endpoint synchronisation have no effect  *)
(* on the state modelled here; each may fail.                              *)
RunCheck(r) ==
  /\ exec[r].pc \in {"verify_image", "preflight", "sync_endpoints"}
  /\ exec[r].phase = "run"
  /\ \E result \in {"success", "failed"} : StepDone(r, result)
  /\ UNCHANGED <<rel, req, cluster, ready, readied, solo, crashes>>

(* Mutant: readiness without the test of the observed generation. *)
ReadyOfOldGeneration(res) == ready

(* workloadReady compares the observed generation with the current one: a  *)
(* workload that was just written is not ready.                            *)
ReadyAfterApply(res) == ready /\ res # "workload"

(* Apply: one Kubernetes write after the other, abandoned at the first     *)
(* error with the earlier writes left in place.                            *)
Apply(r) ==
  /\ exec[r].pc = "apply_resources"
  /\ exec[r].phase = "run"
  /\ \/ /\ cluster' = [cluster EXCEPT ![exec[r].res] = r]
        /\ ready' = ReadyAfterApply(exec[r].res)
        /\ CASE exec[r].res = "config" ->
                  exec' = [exec EXCEPT ![r] = [@ EXCEPT !.res = "workload"]] /\ DBOk /\ UNCHANGED op
             [] exec[r].res = "workload" ->
                  exec' = [exec EXCEPT ![r] = [@ EXCEPT !.res = "service"]] /\ DBOk /\ UNCHANGED op
             [] exec[r].res = "service" -> StepDone(r, "success")
     \/ StepDone(r, "failed") /\ UNCHANGED <<cluster, ready>>
  /\ UNCHANGED <<rel, req, readied, solo, crashes>>

(* Mutant: the wait for readiness has no deadline. *)
WaitReadyForever(r) ==
  /\ exec[r].pc = "wait_ready"
  /\ exec[r].phase = "run"
  /\ ready /\ StepDone(r, "success")
  /\ UNCHANGED <<rel, req, cluster, ready, readied, solo, crashes>>

(* WaitReady polls the workload by its name, whoever wrote it last.  It    *)
(* fails on a terminal diagnostic, on a read error or at its deadline.     *)
WaitReady(r) ==
  /\ exec[r].pc = "wait_ready"
  /\ exec[r].phase = "run"
  /\ (ready /\ StepDone(r, "success")) \/ StepDone(r, "failed")
  /\ UNCHANGED <<rel, req, cluster, ready, readied, solo, crashes>>

(* The three later transitions save the row read when execution began. *)
RunTransition(r) ==
  /\ \/ exec[r].pc = "to_applying" /\ Transition(r, exec[r].mem, "applying", "apply_resources")
     \/ exec[r].pc = "to_waiting_ready" /\ Transition(r, exec[r].mem, "waiting_ready", "wait_ready")
     \/ exec[r].pc = "to_succeeded" /\ Transition(r, exec[r].mem, "succeeded", "done")
  /\ UNCHANGED <<op, req, cluster, ready, readied, solo, crashes>>

(* failRelease re-reads the row; an error of its save is ignored. *)
FailRelease(r) ==
  /\ exec[r].pc = "failing"
  /\ Transition(r, rel[r], "failed", "done")
  /\ UNCHANGED <<op, req, cluster, ready, readied, solo, crashes>>

Execute(r) ==
  \/ StartExecution(r)
  \/ BeginStep(r)
  \/ RunCheck(r)
  \/ Apply(r)
  \/ WaitReady(r)
  \/ RunTransition(r)
  \/ FailRelease(r)

-----------------------------------------------------------------------------
(* The environment: the workload controller of Kubernetes, and crashes.    *)

WorkloadReady ==
  /\ cluster["workload"] # None
  /\ ~ready
  /\ ready' = TRUE
  /\ readied' = readied \cup {cluster["workload"]}
  /\ UNCHANGED <<rel, op, req, exec, cluster, dbFaults, solo, crashes>>

WorkloadUnready ==
  /\ ready
  /\ ready' = FALSE
  /\ UNCHANGED <<rel, op, req, exec, cluster, readied, dbFaults, solo, crashes>>

Crash ==
  /\ crashes < MaxCrashes
  /\ crashes' = crashes + 1
  /\ req' = [q \in Request |-> IF req[q].pc = "idle" THEN req[q] ELSE [req[q] EXCEPT !.pc = "done"]]
  /\ exec' = [r \in ReleaseId |-> IF exec[r].pc = "none" THEN exec[r] ELSE [exec[r] EXCEPT !.pc = "done"]]
  /\ UNCHANGED <<rel, op, cluster, ready, readied, solo, dbFaults>>

Next ==
  \/ \E q \in Request : Begin(q) \/ ListReleases(q) \/ InsertRelease(q) \/ SaveAttribution(q) \/ Launch(q)
  \/ \E r \in ReleaseId : Execute(r)
  \/ WorkloadReady
  \/ WorkloadUnready
  \/ Crash

Spec == Init /\ [][Next]_vars

(* A running goroutine keeps running: all its calls are bounded by the     *)
(* three minutes of its context.  Users and the cluster owe nothing.       *)
FairSpec == Spec /\ \A r \in ReleaseId : WF_vars(Execute(r))

-----------------------------------------------------------------------------
(* Properties.                                                             *)

OpStatus == {"none", "running", "success", "failed"}

RequestPc == {"idle", "list", "insert", "save", "launch", "done"}

RequestRecord == [pc : RequestPc, kind : RequestKind, base : ReleaseId \cup {None},
                  source : ReleaseId \cup {None}, seq : Nat, rid : ReleaseId \cup {None},
                  image : Image \cup {None}, template : Template \cup {None}]

ExecPc == {"none", "queued", "failing", "done", "to_applying", "to_waiting_ready", "to_succeeded"} \cup Step

ExecRecord == [pc : ExecPc, phase : {"begin", "run"}, res : Resource, mem : Row]

(* Type invariant: every variable keeps its shape. *)
TypeOK ==
  /\ rel \in [ReleaseId -> Row]
  /\ op \in [ReleaseId -> [Step -> OpStatus]]
  /\ req \in [Request -> RequestRecord]
  /\ exec \in [ReleaseId -> ExecRecord]
  /\ cluster \in [Resource -> ReleaseId \cup {None}]
  /\ ready \in BOOLEAN
  /\ readied \subseteq ReleaseId
  /\ solo \subseteq ReleaseId
  /\ dbFaults \in 0..MaxDBFaults
  /\ crashes \in 0..MaxCrashes

(* Sequence numbers are unique and have no gaps, although CreateRelease    *)
(* reads the last one and inserts the next one without a transaction: two  *)
(* racing requests cannot both get the number, and the loser leaves none   *)
(* unused.                                                                 *)
SequenceDense ==
  /\ \A r, x \in Existing : rel[r].seq = rel[x].seq => r = x
  /\ \A r \in Existing : \A n \in 1..rel[r].seq : \E x \in Existing : rel[x].seq = n

(* What a rollback or a restart deploys is what an earlier release         *)
(* deployed with success, and a stored source names that release, whatever *)
(* happened to releases between the queries of the request.                *)
DerivedFromSuccess ==
  /\ \A q \in Request :
       req[q].kind \in {"restart", "rollback"} =>
         /\ req[q].base \in Succeeded
         /\ req[q].image = rel[req[q].base].image
         /\ req[q].rid # None => /\ rel[req[q].rid].image = rel[req[q].base].image
                                 /\ rel[req[q].base].seq < rel[req[q].rid].seq
  /\ \A r \in Existing :
       rel[r].source # None => /\ rel[r].source \in Succeeded
                               /\ rel[rel[r].source].seq < rel[r].seq
                               /\ rel[rel[r].source].image = rel[r].image

(* The operation rows justify the status: no release is "succeeded" with a *)
(* step that is missing, unfinished or failed, whatever crashes and        *)
(* database errors hit the executor; likewise for the statuses before.     *)
OperationsMatchStatus ==
  \A r \in ReleaseId :
    LET done(S) == \A s \in S : op[r][s] = "success"
    IN  /\ rel[r].status = "applying" => done({"verify_image", "preflight"})
        /\ rel[r].status = "waiting_ready" => done(Step \ {"wait_ready"})
        /\ rel[r].status = "succeeded" => done(Step)

(* Nothing of a release reaches the cluster before its image was verified  *)
(* and its preflight passed, and never from a draft.                       *)
AppliedAfterChecks ==
  \A x \in Resource :
    LET r == cluster[x]
    IN  r # None => /\ op[r]["verify_image"] = "success"
                    /\ op[r]["preflight"] = "success"
                    /\ rel[r].status \notin {"absent", "draft", "validating"}

(* A release that was executed while no other executor of the application  *)
(* ran and succeeded had its own workload reported ready.                  *)
SoloSuccess ==
  \A r \in ReleaseId : rel[r].status = "succeeded" /\ r \in solo => r \in readied

(* The same without the proviso, as the release specification has it: a    *)
(* release whose workload did not get ready does not succeed.              *)
SuccessWasReady ==
  \A r \in ReleaseId : rel[r].status = "succeeded" => r \in readied

(* A stored release is immutable but for its progress: the whole-row saves *)
(* of the executor lose neither the sequence number and the image nor the  *)
(* template and the source that the request stored by a later save.        *)
ReleaseImmutable ==
  [][\A r \in Existing :
       /\ rel'[r].seq = rel[r].seq
       /\ rel'[r].image = rel[r].image
       /\ rel[r].template # None => rel'[r].template = rel[r].template
       /\ rel[r].source # None => rel'[r].source = rel[r].source]_vars

(* The rows implement the status machine: forward or to "failed", final    *)
(* when "succeeded" or "failed".                                           *)
Abs == INSTANCE ReleaseStatus WITH status <- [r \in ReleaseId |-> rel[r].status]

StatusMachine == Abs!Spec

(* An execution that began ends with "succeeded" or "failed". *)
ExecutionEnds ==
  \A r \in ReleaseId : rel[r].status \in InProgress ~> rel[r].status \in Terminal
=============================================================================
