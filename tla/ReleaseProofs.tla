--------------------------- MODULE ReleaseProofs ----------------------------
(***************************************************************************)
(* Proofs about Release, for every set of releases, requests, images and   *)
(* templates and every number of database errors and crashes: types, what each *)
(* action does to the rows, the invariants, the action property and the    *)
(* refinement of ReleaseStatus.                                            *)
(***************************************************************************)
EXTENDS Release, TLAPS

-----------------------------------------------------------------------------
(* Types.                                                                  *)

(* Changing one value of a function keeps its type. *)
LEMMA Update ==
  ASSUME NEW S, NEW T, NEW f \in [S -> T], NEW x, NEW v \in T
  PROVE  [f EXCEPT ![x] = v] \in [S -> T]
  OBVIOUS

(* The rows that the code writes are rows. *)
LEMMA RowTypes ==
  ASSUME TypeOK
  PROVE  /\ NoRow \in Row
         /\ \A q \in Request : DraftRow(q) \in Row
         /\ \A row \in Row, s \in Status : Advanced(row, s) \in Row
<1>1. NoRow \in Row
  BY DEF NoRow, Row, Status
<1>2. \A q \in Request : req[q].seq \in Nat /\ req[q].image \in Image \cup {None}
  BY DEF TypeOK, RequestRecord
<1>3. \A q \in Request : DraftRow(q) \in Row
  BY Zenon, <1>2 DEF DraftRow, NoRow, Row, Status
<1>4. \A row \in Row, s \in Status : Advanced(row, s) \in Row
  BY DEF Row, Advanced
<1> QED
  BY Zenon, <1>1, <1>3, <1>4

(* Changing a field of a request or of an executor keeps its type. *)
LEMMA FieldUpdates ==
  /\ \A q \in RequestRecord, p \in RequestPc : [q EXCEPT !.pc = p] \in RequestRecord
  /\ \A q \in RequestRecord, p \in RequestPc, n \in Nat :
        [q EXCEPT !.pc = p, !.seq = n] \in RequestRecord
  /\ \A q \in RequestRecord, p \in RequestPc, r \in ReleaseId :
        [q EXCEPT !.pc = p, !.rid = r] \in RequestRecord
  /\ \A e \in ExecRecord, p \in ExecPc : [e EXCEPT !.pc = p] \in ExecRecord
  /\ \A e \in ExecRecord, p \in ExecPc, row \in Row :
        [e EXCEPT !.mem = row, !.pc = p] \in ExecRecord
  /\ \A e \in ExecRecord, p \in ExecPc, f \in {"begin", "run"} :
        [e EXCEPT !.phase = f, !.pc = p] \in ExecRecord
  /\ \A e \in ExecRecord, f \in {"begin", "run"} : [e EXCEPT !.phase = f] \in ExecRecord
  /\ \A e \in ExecRecord, x \in Resource : [e EXCEPT !.res = x] \in ExecRecord
<1>1. /\ \A q \in RequestRecord, p \in RequestPc : [q EXCEPT !.pc = p] \in RequestRecord
      /\ \A q \in RequestRecord, p \in RequestPc, n \in Nat :
            [q EXCEPT !.pc = p, !.seq = n] \in RequestRecord
      /\ \A q \in RequestRecord, p \in RequestPc, r \in ReleaseId :
            [q EXCEPT !.pc = p, !.rid = r] \in RequestRecord
  BY Zenon DEF RequestRecord
<1>2. /\ \A e \in ExecRecord, p \in ExecPc : [e EXCEPT !.pc = p] \in ExecRecord
      /\ \A e \in ExecRecord, p \in ExecPc, row \in Row :
            [e EXCEPT !.mem = row, !.pc = p] \in ExecRecord
      /\ \A e \in ExecRecord, p \in ExecPc, f \in {"begin", "run"} :
            [e EXCEPT !.phase = f, !.pc = p] \in ExecRecord
      /\ \A e \in ExecRecord, f \in {"begin", "run"} : [e EXCEPT !.phase = f] \in ExecRecord
      /\ \A e \in ExecRecord, x \in Resource : [e EXCEPT !.res = x] \in ExecRecord
  BY Zenon DEF ExecRecord
<1> QED
  BY Zenon, <1>1, <1>2

(* The control states used by the actions. *)
LEMMA ControlStates ==
  /\ {"none", "queued", "failing", "done", "to_applying", "to_waiting_ready", "to_succeeded"} \subseteq ExecPc
  /\ Step \subseteq ExecPc
  /\ \A s \in Step : After[s] \in ExecPc
  BY DEF ExecPc, Step, After

(* Recording the status of an operation keeps the type of the table. *)
LEMMA OpUpdate ==
  ASSUME TypeOK, NEW r \in ReleaseId, NEW s \in Step, NEW v \in OpStatus
  PROVE  [op EXCEPT ![r] = [@ EXCEPT ![s] = v]] \in [ReleaseId -> [Step -> OpStatus]]
<1>1. op \in [ReleaseId -> [Step -> OpStatus]]
  BY DEF TypeOK
<1>2. [op[r] EXCEPT ![s] = v] \in [Step -> OpStatus]
  BY <1>1, Update
<1> QED
  BY <1>1, <1>2, Update

(* The count of database errors stays in its bounds. *)
LEMMA FaultTypes ==
  ASSUME TypeOK, DBOk \/ DBFault
  PROVE  dbFaults' \in 0..MaxDBFaults
  BY ConstantsAssumption DEF TypeOK, DBOk, DBFault

(* A step that finishes keeps the types of what it changes. *)
LEMMA StepDoneType ==
  ASSUME TypeOK, NEW r \in ReleaseId, NEW result \in {"success", "failed"},
         exec[r].pc \in Step, StepDone(r, result)
  PROVE  /\ op' \in [ReleaseId -> [Step -> OpStatus]]
         /\ exec' \in [ReleaseId -> ExecRecord]
         /\ dbFaults' \in 0..MaxDBFaults
<1>1. exec \in [ReleaseId -> ExecRecord] /\ op \in [ReleaseId -> [Step -> OpStatus]]
  BY DEF TypeOK
<1>2. dbFaults' \in 0..MaxDBFaults
  BY FaultTypes DEF StepDone
<1>3. [op EXCEPT ![r] = [@ EXCEPT ![exec[r].pc] = result]] \in [ReleaseId -> [Step -> OpStatus]]
  BY OpUpdate DEF OpStatus
<1>4. op' \in [ReleaseId -> [Step -> OpStatus]]
  BY <1>1, <1>3 DEF StepDone
<1>5. PICK p \in ExecPc : exec' = [exec EXCEPT ![r] = [@ EXCEPT !.phase = "begin", !.pc = p]]
  BY Zenon, ControlStates DEF StepDone
<1>6. [exec[r] EXCEPT !.phase = "begin", !.pc = p] \in ExecRecord
  BY Zenon, <1>1, FieldUpdates
<1>7. exec' \in [ReleaseId -> ExecRecord]
  BY <1>1, <1>5, <1>6, Update
<1> QED
  BY <1>2, <1>4, <1>7

(* Likewise for a transition. *)
LEMMA TransitionType ==
  ASSUME TypeOK, NEW r \in ReleaseId, NEW row \in Row, NEW s \in Status,
         NEW pc \in ExecPc, Transition(r, row, s, pc)
  PROVE  /\ rel' \in [ReleaseId -> Row]
         /\ exec' \in [ReleaseId -> ExecRecord]
         /\ dbFaults' \in 0..MaxDBFaults
<1>1. exec \in [ReleaseId -> ExecRecord] /\ rel \in [ReleaseId -> Row]
  BY DEF TypeOK
<1>2. Advanced(row, s) \in Row
  BY RowTypes
<1>3. dbFaults' \in 0..MaxDBFaults
  BY FaultTypes DEF Transition
<1>4. rel' \in [ReleaseId -> Row]
  BY <1>1, <1>2, Update DEF Transition
<1>5. /\ [exec[r] EXCEPT !.mem = Advanced(row, s), !.pc = pc] \in ExecRecord
      /\ [exec[r] EXCEPT !.pc = "done"] \in ExecRecord
  BY Zenon, <1>1, <1>2, FieldUpdates, ControlStates
<1>6. exec' \in [ReleaseId -> ExecRecord]
  BY <1>1, <1>5, Update DEF Transition, Finish
<1> QED
  BY <1>3, <1>4, <1>6

(* Type correctness of the specification. *)
THEOREM TypeCorrect == Spec => []TypeOK
<1>1. Init => TypeOK
  <2> SUFFICES ASSUME Init PROVE TypeOK
    OBVIOUS
  <2>1. NoRow \in Row
    BY DEF NoRow, Row, Status
  <2>2. IdleExec \in ExecRecord
    BY <2>1 DEF IdleExec, ExecRecord, ExecPc, Resource
  <2>3. IdleRequest \in RequestRecord
    BY DEF IdleRequest, RequestRecord, RequestPc, RequestKind
  <2>4. op \in [ReleaseId -> [Step -> OpStatus]]
    BY DEF Init, OpStatus
  <2>5. /\ rel \in [ReleaseId -> Row]
        /\ req \in [Request -> RequestRecord]
        /\ exec \in [ReleaseId -> ExecRecord]
    BY <2>1, <2>2, <2>3 DEF Init
  <2>6. cluster \in [Resource -> ReleaseId \cup {None}] /\ ready \in BOOLEAN
    BY Zenon DEF Init
  <2>7. readied \subseteq ReleaseId /\ solo \subseteq ReleaseId
    BY DEF Init
  <2>8. dbFaults \in 0..MaxDBFaults /\ crashes \in 0..MaxCrashes
    BY ConstantsAssumption DEF Init
  <2> QED
    BY <2>4, <2>5, <2>6, <2>7, <2>8 DEF TypeOK
<1>2. TypeOK /\ [Next]_vars => TypeOK'
  <2> SUFFICES ASSUME TypeOK, [Next]_vars PROVE TypeOK'
    OBVIOUS
  <2>a. /\ exec \in [ReleaseId -> ExecRecord]
        /\ req \in [Request -> RequestRecord]
        /\ rel \in [ReleaseId -> Row]
        /\ op \in [ReleaseId -> [Step -> OpStatus]]
    BY DEF TypeOK
  <2>b. IdleExec \in ExecRecord /\ IdleRequest \in RequestRecord
    BY RowTypes DEF IdleExec, ExecRecord, ExecPc, Resource, IdleRequest, RequestRecord, RequestPc, RequestKind
  <2>c. ASSUME NEW q \in Request, EndRequest(q)
        PROVE  req' \in [Request -> RequestRecord]
    <3>1. [req[q] EXCEPT !.pc = "done"] \in RequestRecord
      BY Zenon, <2>a, FieldUpdates DEF RequestPc
    <3> QED
      BY <2>a, <2>c, <3>1, Update DEF EndRequest
  <2>1. ASSUME NEW q \in Request, Begin(q) PROVE TypeOK'
    <3>1. ASSUME NEW kind \in RequestKind, NEW base \in ReleaseId \cup {None},
                 NEW source \in ReleaseId \cup {None}, NEW image \in Image \cup {None},
                 NEW template \in Template \cup {None}, Derive(q, kind, base, source, image, template)
          PROVE  req' \in [Request -> RequestRecord]
      <4>1. [IdleRequest EXCEPT !.pc = "list", !.kind = kind, !.base = base, !.source = source,
                                !.image = image, !.template = template] \in RequestRecord
        BY Zenon, <2>b DEF RequestRecord, RequestPc
      <4> QED
        BY <2>a, <3>1, <4>1, Update DEF Derive
    <3>2. \A r \in ReleaseId : rel[r].image \in Image \cup {None} /\ rel[r].template \in Template \cup {None}
      BY <2>a DEF Row
    <3>3. req' \in [Request -> RequestRecord]
      <4>1. CASE BeginCreate(q)
        BY Zenon, <4>1, <3>1 DEF BeginCreate, RequestKind
      <4>2. CASE BeginRestart(q)
        BY Zenon, <4>2, <3>1, <3>2 DEF BeginRestart, Succeeded, Existing, RequestKind
      <4>3. CASE BeginRetry(q)
        BY <4>3, <3>1, <3>2 DEF BeginRetry, Existing, RequestKind
      <4>4. CASE BeginRollback(q)
        BY Zenon, <4>4, <3>1, <3>2 DEF BeginRollback, Succeeded, Existing, RequestKind
      <4> QED
        BY <2>1, <4>1, <4>2, <4>3, <4>4 DEF Begin
    <3> QED
      BY <2>1, <3>3 DEF Begin, TypeOK
  <2>2. ASSUME NEW q \in Request, ListReleases(q) PROVE TypeOK'
    <3>1. \A r \in ReleaseId : rel[r].seq + 1 \in Nat
      BY <2>a DEF Row
    <3>2. PICK n \in Nat : req' = [req EXCEPT ![q] = [@ EXCEPT !.pc = "insert", !.seq = n]]
      BY Zenon, <2>2, <3>1 DEF ListReleases, Existing
    <3>3. [req[q] EXCEPT !.pc = "insert", !.seq = n] \in RequestRecord
      BY Zenon, <2>a, FieldUpdates DEF RequestPc
    <3>4. req' \in [Request -> RequestRecord]
      BY <2>a, <3>2, <3>3, Update
    <3> QED
      BY Zenon, <2>2, <3>4 DEF ListReleases, TypeOK
  <2>3. ASSUME NEW q \in Request, InsertRelease(q) PROVE TypeOK'
    <3>1. dbFaults' \in 0..MaxDBFaults
      BY Zenon, <2>3, FaultTypes DEF InsertRelease
    <3>2. rel' \in [ReleaseId -> Row] /\ req' \in [Request -> RequestRecord]
      <4>1. CASE EndRequest(q) /\ UNCHANGED rel
        BY <2>a, <2>c, <4>1
      <4>2. ASSUME NEW r \in ReleaseId,
                   rel' = [rel EXCEPT ![r] = DraftRow(q)],
                   req' = [req EXCEPT ![q] = [@ EXCEPT !.pc = "save", !.rid = r]]
            PROVE  rel' \in [ReleaseId -> Row] /\ req' \in [Request -> RequestRecord]
        <5>1. [req[q] EXCEPT !.pc = "save", !.rid = r] \in RequestRecord
          BY Zenon, <2>a, FieldUpdates DEF RequestPc
        <5> QED
          BY <2>a, <4>2, <5>1, RowTypes, Update
      <4> QED
        BY Zenon, <2>3, <4>1, <4>2 DEF InsertRelease
    <3> QED
      BY Zenon, <2>3, <3>1, <3>2 DEF InsertRelease, TypeOK
  <2>4. ASSUME NEW q \in Request, SaveAttribution(q) PROVE TypeOK'
    <3>1. dbFaults' \in 0..MaxDBFaults
      BY <2>4, FaultTypes DEF SaveAttribution
    <3>2. [DraftRow(q) EXCEPT !.template = req[q].template, !.source = req[q].source] \in Row
      BY Zenon, <2>a, RowTypes DEF Row, RequestRecord
    <3>3. rel' \in [ReleaseId -> Row]
      BY Zenon, <2>a, <2>4, <3>2, Update DEF SaveAttribution
    <3>4. [req[q] EXCEPT !.pc = "launch"] \in RequestRecord
      BY Zenon, <2>a, FieldUpdates DEF RequestPc
    <3>5. req' \in [Request -> RequestRecord]
      BY <2>a, <2>c, <2>4, <3>4, Update DEF SaveAttribution
    <3> QED
      BY <2>4, <3>1, <3>3, <3>5 DEF SaveAttribution, TypeOK
  <2>5. ASSUME NEW q \in Request, Launch(q) PROVE TypeOK'
    <3>1. [IdleExec EXCEPT !.pc = "queued"] \in ExecRecord
      BY Zenon, <2>b, FieldUpdates, ControlStates
    <3>2. exec' \in [ReleaseId -> ExecRecord]
      BY <2>a, <2>5, <3>1, Update DEF Launch
    <3>3. req' \in [Request -> RequestRecord]
      BY <2>5, <2>c DEF Launch
    <3> QED
      BY <2>5, <3>2, <3>3 DEF Launch, TypeOK
  <2>6. ASSUME NEW r \in ReleaseId, StartExecution(r) PROVE TypeOK'
    <3>1. dbFaults' \in 0..MaxDBFaults
      BY <2>6, FaultTypes DEF StartExecution
    <3>2. Advanced(rel[r], "validating") \in Row
      BY <2>a, RowTypes DEF Status, InProgress
    <3>3. rel' \in [ReleaseId -> Row]
      BY <2>a, <2>6, <3>2, Update DEF StartExecution
    <3>4. solo' \subseteq ReleaseId
      BY <2>6 DEF StartExecution, SoloAfterStart, TypeOK
    <3>5. /\ [exec[r] EXCEPT !.mem = Advanced(rel[r], "validating"), !.pc = "verify_image"] \in ExecRecord
          /\ [exec[r] EXCEPT !.pc = "failing"] \in ExecRecord
          /\ [exec[r] EXCEPT !.pc = "done"] \in ExecRecord
      BY Zenon, <2>a, <3>2, FieldUpdates, ControlStates DEF Step
    <3>6. exec' \in [ReleaseId -> ExecRecord]
      BY Zenon, <2>a, <2>6, <3>5, Update DEF StartExecution, Finish
    <3> QED
      BY <2>6, <3>1, <3>3, <3>4, <3>6 DEF StartExecution, TypeOK
  <2>7. ASSUME NEW r \in ReleaseId, BeginStep(r) PROVE TypeOK'
    <3>1. dbFaults' \in 0..MaxDBFaults
      BY <2>7, FaultTypes DEF BeginStep
    <3>2. [op EXCEPT ![r] = [@ EXCEPT ![exec[r].pc] = "running"]] \in [ReleaseId -> [Step -> OpStatus]]
      BY <2>7, OpUpdate DEF OpStatus, BeginStep
    <3>3. op' \in [ReleaseId -> [Step -> OpStatus]]
      BY Zenon, <2>a, <2>7, <3>2 DEF BeginStep
    <3>4. [exec[r] EXCEPT !.phase = "run"] \in ExecRecord /\ [exec[r] EXCEPT !.pc = "failing"] \in ExecRecord
      BY Zenon, <2>a, FieldUpdates, ControlStates
    <3>5. exec' \in [ReleaseId -> ExecRecord]
      BY Zenon, <2>a, <2>7, <3>4, Update DEF BeginStep
    <3> QED
      BY <2>7, <3>1, <3>3, <3>5 DEF BeginStep, TypeOK
  <2>8. ASSUME NEW r \in ReleaseId, RunCheck(r) PROVE TypeOK'
    <3>1. exec[r].pc \in Step
      BY <2>8 DEF RunCheck, Step
    <3>2. PICK result \in {"success", "failed"} : StepDone(r, result)
      BY <2>8 DEF RunCheck
    <3> QED
      BY <2>8, <3>1, <3>2, StepDoneType DEF RunCheck, TypeOK
  <2>9. ASSUME NEW r \in ReleaseId, Apply(r) PROVE TypeOK'
    <3>1. exec[r].pc \in Step /\ exec[r].res \in Resource
      BY <2>a, <2>9 DEF Apply, Step, ExecRecord
    <3>2. cluster' \in [Resource -> ReleaseId \cup {None}] /\ ready' \in BOOLEAN
      BY Zenon, <2>9, <3>1 DEF Apply, TypeOK, ReadyAfterApply
    <3>3. /\ op' \in [ReleaseId -> [Step -> OpStatus]]
          /\ exec' \in [ReleaseId -> ExecRecord]
          /\ dbFaults' \in 0..MaxDBFaults
      <4>1. CASE StepDone(r, "success") \/ StepDone(r, "failed")
        BY <3>1, <4>1, StepDoneType
      <4>2. ASSUME NEW x \in Resource, exec' = [exec EXCEPT ![r] = [@ EXCEPT !.res = x]], DBOk, UNCHANGED op
            PROVE  /\ op' \in [ReleaseId -> [Step -> OpStatus]]
                   /\ exec' \in [ReleaseId -> ExecRecord]
                   /\ dbFaults' \in 0..MaxDBFaults
        <5>1. [exec[r] EXCEPT !.res = x] \in ExecRecord
          BY Zenon, <2>a, FieldUpdates
        <5> QED
          BY <2>a, <4>2, <5>1, Update, FaultTypes
      <4> QED
        BY Zenon, <2>9, <3>1, <4>1, <4>2 DEF Apply, Resource
    <3> QED
      BY <2>9, <3>2, <3>3 DEF Apply, TypeOK
  <2>10. ASSUME NEW r \in ReleaseId, WaitReady(r) PROVE TypeOK'
    <3>1. exec[r].pc \in Step
      BY <2>10 DEF WaitReady, Step
    <3>2. PICK result \in {"success", "failed"} : StepDone(r, result)
      BY <2>10 DEF WaitReady
    <3> QED
      BY <2>10, <3>1, <3>2, StepDoneType DEF WaitReady, TypeOK
  <2>11. ASSUME NEW r \in ReleaseId, RunTransition(r) PROVE TypeOK'
    <3>1. PICK s \in Status, pc \in ExecPc : Transition(r, exec[r].mem, s, pc)
      BY <2>11 DEF RunTransition, Status, InProgress, Terminal, ExecPc, Step
    <3>2. exec[r].mem \in Row
      BY <2>a DEF ExecRecord
    <3> QED
      BY Zenon, <2>11, <3>1, <3>2, TransitionType DEF RunTransition, TypeOK
  <2>12. ASSUME NEW r \in ReleaseId, FailRelease(r) PROVE TypeOK'
    <3>1. rel[r] \in Row /\ "failed" \in Status /\ "done" \in ExecPc
      BY <2>a DEF Status, Terminal, ExecPc
    <3> QED
      BY <2>12, <3>1, TransitionType DEF FailRelease, TypeOK
  <2>13. CASE WorkloadReady \/ WorkloadUnready
    BY Zenon, <2>13 DEF WorkloadReady, WorkloadUnready, TypeOK, Resource
  <2>14. CASE Crash
    <3>1. /\ \A q \in Request : [req[q] EXCEPT !.pc = "done"] \in RequestRecord
          /\ \A r \in ReleaseId : [exec[r] EXCEPT !.pc = "done"] \in ExecRecord
      BY Zenon, <2>a, FieldUpdates, ControlStates DEF RequestPc
    <3>2. req' \in [Request -> RequestRecord]
      BY <2>a, <2>14, <3>1 DEF Crash
    <3>3. exec' \in [ReleaseId -> ExecRecord]
      BY <2>a, <2>14, <3>1 DEF Crash
    <3>4. crashes' \in 0..MaxCrashes
      BY <2>14, ConstantsAssumption DEF Crash, TypeOK
    <3> QED
      BY <2>14, <3>2, <3>3, <3>4 DEF Crash, TypeOK
  <2>15. CASE UNCHANGED vars
    BY Zenon, <2>15 DEF vars, TypeOK
  <2> QED
    BY <2>1, <2>2, <2>3, <2>4, <2>5, <2>6, <2>7, <2>8, <2>9, <2>10, <2>11, <2>12, <2>13, <2>14, <2>15
       DEF Next, Execute
<1> QED
  BY <1>1, <1>2, PTL DEF Spec

-----------------------------------------------------------------------------
(* The invariants that Release states are not inductive.  What follows     *)
(* strengthens them with the facts that relate the control state of the    *)
(* executors and of the requests to the rows they have read and written.   *)

(* What the place of an executor in the code tells about the stored row:   *)
(* it determines the status, and the row held in memory is the stored one  *)
(* until the executor gives up.                                            *)
Consistent(row, e) ==
  /\ row.status = "absent" => e.pc = "none"
  /\ e.pc = "none" => row.status \in {"absent", "draft"}
  /\ e.pc = "queued" => row.status = "draft"
  /\ e.pc \in {"verify_image", "preflight", "to_applying"} => row.status = "validating" /\ e.mem = row
  /\ e.pc \in {"apply_resources", "sync_endpoints", "to_waiting_ready"} => row.status = "applying" /\ e.mem = row
  /\ e.pc \in {"wait_ready", "to_succeeded"} => row.status = "waiting_ready" /\ e.mem = row
  /\ e.pc = "failing" => row.status \in {"draft"} \cup InProgress

ExecutorInv == \A r \in ReleaseId : Consistent(rel[r], exec[r])

(* A request that stored its release owns the row until it launches it. *)
Owns(q) ==
  LET r == req[q].rid
  IN  /\ req[q].pc \in {"idle", "list", "insert"} => r = None
      /\ req[q].pc \in {"save", "launch"} => r # None /\ exec[r].pc = "none" /\ rel[r].status = "draft"
      /\ req[q].pc = "save" => rel[r] = DraftRow(q)
      /\ r # None => r \in Existing /\ rel[r].seq = req[q].seq /\ rel[r].image = req[q].image

OwnershipInv ==
  /\ \A q \in Request : Owns(q)
  /\ \A p, q \in Request : req[p].rid = req[q].rid /\ req[p].rid # None => p = q

ControlInv == ExecutorInv /\ OwnershipInv

-----------------------------------------------------------------------------
(* What the two shared parts of the executor's steps change.               *)

(* runStep's record of a result: where the executor goes and which operation
   row changes, whether or not the write fails. *)
LEMMA StepDoneEffect ==
  ASSUME TypeOK, NEW r \in ReleaseId, NEW result \in {"success", "failed"},
         exec[r].pc \in Step, StepDone(r, result)
  PROVE  /\ \A x \in ReleaseId \ {r} : exec'[x] = exec[x] /\ op'[x] = op[x]
         /\ exec'[r].mem = exec[r].mem /\ exec'[r].res = exec[r].res
         /\ \A s \in Step \ {exec[r].pc} : op'[r][s] = op[r][s]
         /\ \/ exec'[r].pc = "failing"
            \/ /\ result = "success"
               /\ exec'[r].pc = After[exec[r].pc]
               /\ op'[r][exec[r].pc] = "success"
<1>1. exec \in [ReleaseId -> ExecRecord] /\ op \in [ReleaseId -> [Step -> OpStatus]]
  BY DEF TypeOK
<1>2. PICK p \in ExecPc : /\ exec' = [exec EXCEPT ![r] = [@ EXCEPT !.phase = "begin", !.pc = p]]
                          /\ \/ p = "failing"
                             \/ /\ result = "success"
                                /\ p = After[exec[r].pc]
                                /\ op' = [op EXCEPT ![r] = [@ EXCEPT ![exec[r].pc] = result]]
  BY Zenon, ControlStates DEF StepDone
<1>3. /\ exec'[r] = [exec[r] EXCEPT !.phase = "begin", !.pc = p]
      /\ \A x \in ReleaseId \ {r} : exec'[x] = exec[x]
  BY <1>1, <1>2
<1>4. exec'[r].pc = p /\ exec'[r].mem = exec[r].mem /\ exec'[r].res = exec[r].res
  BY <1>1, <1>3 DEF ExecRecord
<1>5. op' = op \/ op' = [op EXCEPT ![r] = [@ EXCEPT ![exec[r].pc] = result]]
  BY DEF StepDone
<1>6. \A x \in ReleaseId \ {r} : op'[x] = op[x]
  BY <1>1, <1>5
<1>7. op'[r] = op[r] \/ op'[r] = [op[r] EXCEPT ![exec[r].pc] = result]
  BY <1>1, <1>5
<1>8. \A s \in Step \ {exec[r].pc} : op'[r][s] = op[r][s]
  BY <1>1, <1>7
<1>9. ASSUME op' = [op EXCEPT ![r] = [@ EXCEPT ![exec[r].pc] = result]], result = "success"
      PROVE  op'[r][exec[r].pc] = "success"
  <2>1. op'[r] = [op[r] EXCEPT ![exec[r].pc] = result]
    BY <1>1, <1>9
  <2> QED
    BY <1>1, <1>9, <2>1
<1> QED
  BY <1>2, <1>3, <1>4, <1>6, <1>8, <1>9

(* A transition either saves the executor's row with the new status or, on a
   database error, ends the executor and changes no row. *)
LEMMA TransitionEffect ==
  ASSUME TypeOK, NEW r \in ReleaseId, NEW row \in Row, NEW s \in Status,
         NEW pc \in ExecPc, Transition(r, row, s, pc)
  PROVE  /\ \A x \in ReleaseId \ {r} : exec'[x] = exec[x] /\ rel'[x] = rel[x]
         /\ exec'[r].res = exec[r].res
         /\ \/ /\ rel'[r] = Advanced(row, s)
               /\ exec'[r].mem = Advanced(row, s)
               /\ exec'[r].pc = pc
            \/ /\ rel'[r] = rel[r]
               /\ exec'[r].pc = "done"
<1>1. exec \in [ReleaseId -> ExecRecord] /\ rel \in [ReleaseId -> Row]
  BY DEF TypeOK
<1>2. CASE /\ rel' = [rel EXCEPT ![r] = Advanced(row, s)]
           /\ exec' = [exec EXCEPT ![r] = [@ EXCEPT !.mem = Advanced(row, s), !.pc = pc]]
  <2>1. /\ rel'[r] = Advanced(row, s)
        /\ exec'[r] = [exec[r] EXCEPT !.mem = Advanced(row, s), !.pc = pc]
        /\ \A x \in ReleaseId \ {r} : exec'[x] = exec[x] /\ rel'[x] = rel[x]
    BY <1>1, <1>2
  <2>2. exec'[r].mem = Advanced(row, s) /\ exec'[r].pc = pc /\ exec'[r].res = exec[r].res
    BY <1>1, <2>1 DEF ExecRecord
  <2> QED
    BY <2>1, <2>2
<1>3. CASE Finish(r) /\ UNCHANGED rel
  <2>1. exec'[r] = [exec[r] EXCEPT !.pc = "done"] /\ \A x \in ReleaseId \ {r} : exec'[x] = exec[x]
    BY <1>1, <1>3 DEF Finish
  <2>2. exec'[r].pc = "done" /\ exec'[r].res = exec[r].res
    BY <1>1, <2>1 DEF ExecRecord
  <2> QED
    BY <1>3, <2>1, <2>2
<1> QED
  BY <1>2, <1>3 DEF Transition

(* How an executor may change the row of its release. *)
Progress(old, new) ==
  \/ new = old
  \/ old.status \in {"draft"} \cup InProgress /\ new = Advanced(old, "failed")
  \/ old.status = "draft" /\ new = Advanced(old, "validating")
  \/ old.status = "validating" /\ new = Advanced(old, "applying")
  \/ old.status = "applying" /\ new = Advanced(old, "waiting_ready")
  \/ old.status = "waiting_ready" /\ new = Advanced(old, "succeeded")

(* Every step of an executor works on its own release only, takes it one   *)
(* status further at most and leaves executor and row consistent.          *)
LEMMA ExecuteEffect ==
  ASSUME TypeOK, ExecutorInv, NEW r \in ReleaseId, Execute(r)
  PROVE  /\ exec[r].pc \notin {"none", "done"}
         /\ UNCHANGED req
         /\ \A x \in ReleaseId \ {r} : exec'[x] = exec[x] /\ rel'[x] = rel[x] /\ op'[x] = op[x]
         /\ Progress(rel[r], rel'[r])
         /\ Consistent(rel'[r], exec'[r])
<1> DEFINE Goal == /\ exec[r].pc \notin {"none", "done"}
                   /\ UNCHANGED req
                   /\ \A x \in ReleaseId \ {r} : exec'[x] = exec[x] /\ rel'[x] = rel[x] /\ op'[x] = op[x]
                   /\ Progress(rel[r], rel'[r])
                   /\ Consistent(rel'[r], exec'[r])
<1>a. /\ exec \in [ReleaseId -> ExecRecord] /\ rel \in [ReleaseId -> Row]
      /\ op \in [ReleaseId -> [Step -> OpStatus]]
  BY DEF TypeOK
<1>b. exec[r] \in ExecRecord /\ rel[r] \in Row /\ exec[r].mem \in Row
  BY Zenon, <1>a DEF ExecRecord
<1>c. Consistent(rel[r], exec[r])
  BY DEF ExecutorInv
<1>d. \A row \in Row, s \in Status : Advanced(row, s).status = s
  BY Zenon DEF Advanced, Row
<1>e. /\ exec[r].pc \in {"verify_image", "preflight", "to_applying"} =>
           rel[r].status = "validating" /\ exec[r].mem = rel[r]
      /\ exec[r].pc \in {"apply_resources", "sync_endpoints", "to_waiting_ready"} =>
           rel[r].status = "applying" /\ exec[r].mem = rel[r]
      /\ exec[r].pc \in {"wait_ready", "to_succeeded"} =>
           rel[r].status = "waiting_ready" /\ exec[r].mem = rel[r]
  BY <1>c DEF Consistent
<1>1. CASE StartExecution(r)
  <2>1. exec[r].pc = "queued" /\ rel[r].status = "draft"
    BY <1>1, <1>c DEF StartExecution, Consistent
  <2>2. CASE /\ rel' = [rel EXCEPT ![r] = Advanced(rel[r], "validating")]
             /\ exec' = [exec EXCEPT ![r] = [@ EXCEPT !.mem = Advanced(rel[r], "validating"),
                                                      !.pc = "verify_image"]]
    <3>1. /\ rel'[r] = Advanced(rel[r], "validating")
          /\ exec'[r] = [exec[r] EXCEPT !.mem = Advanced(rel[r], "validating"), !.pc = "verify_image"]
          /\ \A x \in ReleaseId \ {r} : exec'[x] = exec[x] /\ rel'[x] = rel[x]
      BY <1>a, <2>2
    <3>2. exec'[r].mem = rel'[r] /\ exec'[r].pc = "verify_image"
      BY <1>b, <3>1 DEF ExecRecord
    <3>3. rel'[r].status = "validating"
      BY <1>b, <1>d, <3>1 DEF Status, InProgress
    <3>4. Consistent(rel'[r], exec'[r])
      BY <3>2, <3>3 DEF Consistent
    <3> QED
      BY <1>1, <2>1, <3>1, <3>4 DEF StartExecution, Progress
  <2>3. ASSUME NEW p \in {"failing", "done"}, exec' = [exec EXCEPT ![r] = [@ EXCEPT !.pc = p]], UNCHANGED rel
        PROVE  Goal
    <3>1. exec'[r] = [exec[r] EXCEPT !.pc = p] /\ \A x \in ReleaseId \ {r} : exec'[x] = exec[x]
      BY <1>a, <2>3
    <3>2. exec'[r].pc = p
      BY <1>b, <3>1 DEF ExecRecord
    <3>3. Consistent(rel'[r], exec'[r])
      BY <2>1, <2>3, <3>2 DEF Consistent
    <3> QED
      BY <1>1, <2>1, <2>3, <3>1, <3>3 DEF StartExecution, Progress
  <2> QED
    BY <1>1, <2>2, <2>3 DEF StartExecution, Finish
<1>2. CASE BeginStep(r)
  <2>1. exec[r].pc \in Step /\ rel[r].status \in InProgress
    BY <1>2, <1>e DEF BeginStep, Step, InProgress
  <2>2. \A x \in ReleaseId \ {r} : exec'[x] = exec[x] /\ op'[x] = op[x]
    BY <1>2, <1>a DEF BeginStep
  <2>3. \/ exec'[r] = [exec[r] EXCEPT !.phase = "run"]
        \/ exec'[r] = [exec[r] EXCEPT !.pc = "failing"]
    BY <1>2, <1>a DEF BeginStep
  <2>4. (exec'[r].pc = exec[r].pc /\ exec'[r].mem = exec[r].mem) \/ exec'[r].pc = "failing"
    BY <1>b, <2>3 DEF ExecRecord
  <2>5. rel' = rel /\ req' = req
    BY Zenon, <1>2 DEF BeginStep
  <2>6. Consistent(rel'[r], exec'[r])
    BY Zenon, <1>c, <2>1, <2>4, <2>5 DEF Consistent, InProgress
  <2> QED
    BY <2>1, <2>2, <2>5, <2>6 DEF Progress, Step
<1>3. ASSUME NEW result \in {"success", "failed"}, StepDone(r, result), exec[r].pc \in Step, UNCHANGED <<rel, req>>
      PROVE  Goal
  <2>1. rel[r].status \in InProgress
    BY Zenon, <1>3, <1>e DEF Step, InProgress
  <2>2. CASE exec'[r].pc = "failing"
    <3>1. Consistent(rel'[r], exec'[r])
      BY Zenon, <1>3, <2>1, <2>2 DEF Consistent, InProgress
    <3> QED
      BY <1>3, <3>1, StepDoneEffect DEF Progress, Step
  <2>3. CASE exec'[r].pc = After[exec[r].pc]
    <3>1. exec'[r].mem = exec[r].mem
      BY Zenon, <1>3, StepDoneEffect
    <3>2. Consistent(rel'[r], exec'[r])
      BY Zenon, <1>3, <1>e, <2>3, <3>1 DEF Consistent, After, Step
    <3> QED
      BY Zenon, <1>3, <3>2, StepDoneEffect DEF Progress, Step
  <2> QED
    BY Zenon, <1>3, <2>2, <2>3, StepDoneEffect
<1>4. CASE RunCheck(r)
  BY <1>3, <1>4 DEF RunCheck, Step
<1>5. CASE Apply(r)
  <2>1. CASE StepDone(r, "success") \/ StepDone(r, "failed")
    BY <1>3, <1>5, <2>1 DEF Apply, Step
  <2>2. ASSUME NEW x \in Resource, exec' = [exec EXCEPT ![r] = [@ EXCEPT !.res = x]], UNCHANGED op
        PROVE  Goal
    <3>1. exec'[r] = [exec[r] EXCEPT !.res = x] /\ \A y \in ReleaseId \ {r} : exec'[y] = exec[y]
      BY <1>a, <2>2
    <3>2. exec'[r].pc = exec[r].pc /\ exec'[r].mem = exec[r].mem
      BY <1>b, <3>1 DEF ExecRecord
    <3>3. Consistent(rel'[r], exec'[r])
      BY <1>5, <1>c, <3>2 DEF Apply, Consistent
    <3> QED
      BY <1>5, <2>2, <3>1, <3>3 DEF Apply, Progress
  <2>3. exec[r].res \in Resource
    BY <1>b DEF ExecRecord
  <2> QED
    BY Zenon, <1>5, <2>1, <2>2, <2>3 DEF Apply, Resource
<1>6. CASE WaitReady(r)
  BY Zenon, <1>3, <1>6 DEF WaitReady, Step
<1>7. ASSUME NEW row \in Row, NEW s \in Status, NEW pc \in ExecPc, Transition(r, row, s, pc), row = rel[r],
             exec[r].pc \notin {"none", "done"}, rel[r].status # "absent",
             Progress(rel[r], Advanced(rel[r], s)), UNCHANGED <<op, req>>,
             \A e \in ExecRecord : e.pc = pc /\ e.mem = Advanced(row, s) => Consistent(Advanced(row, s), e)
      PROVE  Goal
  <2>1. exec'[r] \in ExecRecord
    BY Zenon, <1>7, TransitionType
  <2>2. CASE rel'[r] = Advanced(row, s) /\ exec'[r].mem = Advanced(row, s) /\ exec'[r].pc = pc
    BY <1>7, <2>1, <2>2, TransitionEffect
  <2>3. CASE rel'[r] = rel[r] /\ exec'[r].pc = "done"
    <3>1. Consistent(rel'[r], exec'[r])
      BY Zenon, <1>7, <2>3 DEF Consistent
    <3> QED
      BY Zenon, <1>7, <2>3, <3>1, TransitionEffect DEF Progress
  <2> QED
    BY <1>7, <2>2, <2>3, TransitionEffect
<1>8. CASE RunTransition(r)
  <2>1. /\ {"applying", "waiting_ready", "succeeded"} \subseteq Status
        /\ {"apply_resources", "wait_ready", "done"} \subseteq ExecPc
    BY DEF Status, InProgress, Terminal, ExecPc, Step
  <2>2. UNCHANGED <<op, req>>
    BY Zenon, <1>8 DEF RunTransition
  <2>3. CASE exec[r].pc = "to_applying" /\ Transition(r, exec[r].mem, "applying", "apply_resources")
    <3>1. rel[r].status = "validating" /\ exec[r].mem = rel[r]
      BY <1>e, <2>3
    <3>2. Advanced(rel[r], "applying").status = "applying"
      BY Zenon, <1>b, <1>d, <2>1
    <3>3. \A e \in ExecRecord : e.pc = "apply_resources" /\ e.mem = Advanced(rel[r], "applying")
                                  => Consistent(Advanced(rel[r], "applying"), e)
      BY <3>2 DEF Consistent
    <3>4. Progress(rel[r], Advanced(rel[r], "applying"))
      BY Zenon, <3>1 DEF Progress
    <3> QED
      BY <1>7, <1>b, <2>1, <2>2, <2>3, <3>1, <3>3, <3>4
  <2>4. CASE exec[r].pc = "to_waiting_ready" /\ Transition(r, exec[r].mem, "waiting_ready", "wait_ready")
    <3>1. rel[r].status = "applying" /\ exec[r].mem = rel[r]
      BY <1>e, <2>4
    <3>2. Advanced(rel[r], "waiting_ready").status = "waiting_ready"
      BY Zenon, <1>b, <1>d, <2>1
    <3>3. \A e \in ExecRecord : e.pc = "wait_ready" /\ e.mem = Advanced(rel[r], "waiting_ready")
                                  => Consistent(Advanced(rel[r], "waiting_ready"), e)
      BY <3>2 DEF Consistent
    <3>4. Progress(rel[r], Advanced(rel[r], "waiting_ready"))
      BY Zenon, <3>1 DEF Progress
    <3> QED
      BY <1>7, <1>b, <2>1, <2>2, <2>4, <3>1, <3>3, <3>4
  <2>5. CASE exec[r].pc = "to_succeeded" /\ Transition(r, exec[r].mem, "succeeded", "done")
    <3>1. rel[r].status = "waiting_ready" /\ exec[r].mem = rel[r]
      BY <1>e, <2>5
    <3>2. Advanced(rel[r], "succeeded").status = "succeeded"
      BY Zenon, <1>b, <1>d, <2>1
    <3>3. \A e \in ExecRecord : e.pc = "done" /\ e.mem = Advanced(rel[r], "succeeded")
                                  => Consistent(Advanced(rel[r], "succeeded"), e)
      BY <3>2 DEF Consistent
    <3>4. Progress(rel[r], Advanced(rel[r], "succeeded"))
      BY Zenon, <3>1 DEF Progress
    <3> QED
      BY <1>7, <1>b, <2>1, <2>2, <2>5, <3>1, <3>3, <3>4
  <2> QED
    BY <1>8, <2>3, <2>4, <2>5 DEF RunTransition
<1>9. CASE FailRelease(r)
  <2>1. /\ exec[r].pc = "failing" /\ Transition(r, rel[r], "failed", "done")
        /\ UNCHANGED <<op, req>>
    BY <1>9 DEF FailRelease
  <2>2. rel[r].status \in {"draft"} \cup InProgress /\ rel[r].status # "absent"
    BY <1>c, <2>1 DEF Consistent, InProgress
  <2>3. "failed" \in Status /\ "done" \in ExecPc
    BY DEF Status, Terminal, ExecPc
  <2>4. Advanced(rel[r], "failed").status = "failed"
    BY Zenon, <1>b, <1>d, <2>3
  <2>5. \A e \in ExecRecord : e.pc = "done" /\ e.mem = Advanced(rel[r], "failed")
                                => Consistent(Advanced(rel[r], "failed"), e)
    BY Zenon, <2>4 DEF Consistent
  <2>6. Progress(rel[r], Advanced(rel[r], "failed"))
    BY <2>2 DEF Progress
  <2> QED
    BY <1>7, <1>b, <2>1, <2>2, <2>3, <2>5, <2>6
<1> QED
  BY <1>1, <1>2, <1>4, <1>5, <1>6, <1>8, <1>9 DEF Execute

-----------------------------------------------------------------------------
(* What the steps of a request change.                                     *)

(* A request that ends keeps what it holds. *)
LEMMA EndRequestEffect ==
  ASSUME TypeOK, NEW q \in Request, EndRequest(q)
  PROVE  /\ \A p \in Request \ {q} : req'[p] = req[p]
         /\ req'[q] = [req[q] EXCEPT !.pc = "done"]
         /\ req'[q].pc = "done"
         /\ req'[q].kind = req[q].kind /\ req'[q].base = req[q].base /\ req'[q].source = req[q].source
         /\ req'[q].seq = req[q].seq /\ req'[q].rid = req[q].rid
         /\ req'[q].image = req[q].image /\ req'[q].template = req[q].template
<1>1. req \in [Request -> RequestRecord]
  BY DEF TypeOK
<1>2. req'[q] = [req[q] EXCEPT !.pc = "done"] /\ \A p \in Request \ {q} : req'[p] = req[p]
  BY <1>1 DEF EndRequest
<1> QED
  BY <1>1, <1>2 DEF RequestRecord

(* What a request holds after it has read the release it derives from. *)
LEMMA DeriveEffect ==
  ASSUME TypeOK, NEW q \in Request, NEW kind, NEW base, NEW source, NEW image, NEW template,
         Derive(q, kind, base, source, image, template)
  PROVE  /\ \A p \in Request \ {q} : req'[p] = req[p]
         /\ req'[q].pc = "list" /\ req'[q].rid = None
         /\ req'[q].kind = kind /\ req'[q].base = base /\ req'[q].source = source
         /\ req'[q].image = image /\ req'[q].template = template
<1>1. req \in [Request -> RequestRecord]
  BY DEF TypeOK
<1>2. /\ req'[q] = [IdleRequest EXCEPT !.pc = "list", !.kind = kind, !.base = base,
                                       !.source = source, !.image = image, !.template = template]
      /\ \A p \in Request \ {q} : req'[p] = req[p]
  BY Zenon, <1>1 DEF Derive
<1> QED
  BY <1>2 DEF IdleRequest

(* The queries of Begin: a request starts out without a row of its own. *)
LEMMA BeginEffect ==
  ASSUME TypeOK, NEW q \in Request, Begin(q)
  PROVE  /\ \A p \in Request \ {q} : req'[p] = req[p]
         /\ req[q].pc = "idle" /\ req'[q].pc = "list" /\ req'[q].rid = None
         /\ UNCHANGED <<rel, exec, op, cluster, ready, readied, solo>>
         /\ \/ req'[q].kind = "create" /\ req'[q].source = None
            \/ req'[q].kind = "retry" /\ req'[q].source = None
            \/ /\ req'[q].kind \in {"restart", "rollback"}
               /\ req'[q].base \in Succeeded
               /\ req'[q].image = rel[req'[q].base].image
               /\ req'[q].source # None => req'[q].kind = "rollback" /\ req'[q].source = req'[q].base
<1> DEFINE Goal == /\ \A p \in Request \ {q} : req'[p] = req[p]
                   /\ req'[q].pc = "list" /\ req'[q].rid = None
                   /\ \/ req'[q].kind = "create" /\ req'[q].source = None
                      \/ req'[q].kind = "retry" /\ req'[q].source = None
                      \/ /\ req'[q].kind \in {"restart", "rollback"}
                         /\ req'[q].base \in Succeeded
                         /\ req'[q].image = rel[req'[q].base].image
                         /\ req'[q].source # None =>
                              req'[q].kind = "rollback" /\ req'[q].source = req'[q].base
<1>1. ASSUME BeginCreate(q) PROVE Goal
  <2>1. PICK i \in Image, t \in Template : Derive(q, "create", None, None, i, t)
    BY Zenon, <1>1 DEF BeginCreate
  <2> QED
    BY <2>1, DeriveEffect
<1>2. ASSUME BeginRestart(q) PROVE Goal
  <2>1. PICK r \in Succeeded, t \in Template : Derive(q, "restart", r, None, rel[r].image, t)
    BY Zenon, <1>2 DEF BeginRestart
  <2>2. /\ \A p \in Request \ {q} : req'[p] = req[p]
        /\ req'[q].pc = "list" /\ req'[q].rid = None
        /\ req'[q].kind = "restart" /\ req'[q].base = r /\ req'[q].source = None
        /\ req'[q].image = rel[r].image
    BY <2>1, DeriveEffect
  <2> QED
    BY <2>1, <2>2
<1>3. ASSUME BeginRetry(q) PROVE Goal
  <2>1. PICK r \in Existing : Derive(q, "retry", r, None, rel[r].image, rel[r].template)
    BY Zenon, <1>3 DEF BeginRetry
  <2> QED
    BY <2>1, DeriveEffect
<1>4. ASSUME BeginRollback(q) PROVE Goal
  <2>1. PICK r \in Succeeded : Derive(q, "rollback", r, r, rel[r].image, rel[r].template)
    BY Zenon, <1>4 DEF BeginRollback
  <2>2. /\ \A p \in Request \ {q} : req'[p] = req[p]
        /\ req'[q].pc = "list" /\ req'[q].rid = None
        /\ req'[q].kind = "rollback" /\ req'[q].base = r /\ req'[q].source = r
        /\ req'[q].image = rel[r].image
    BY <2>1, DeriveEffect
  <2> QED
    BY Zenon, <2>2
<1> QED
  BY Zenon, <1>1, <1>2, <1>3, <1>4 DEF Begin

(* The query for the next sequence number changes the request only. *)
LEMMA ListReleasesEffect ==
  ASSUME TypeOK, NEW q \in Request, ListReleases(q)
  PROVE  /\ \A p \in Request \ {q} : req'[p] = req[p]
         /\ req[q].pc = "list" /\ req'[q].pc = "insert"
         /\ req'[q].kind = req[q].kind /\ req'[q].base = req[q].base /\ req'[q].source = req[q].source
         /\ req'[q].rid = req[q].rid /\ req'[q].image = req[q].image
         /\ \/ Existing = {} /\ req'[q].seq = 1
            \/ \E r \in Existing : IsLatest(r, Existing) /\ req'[q].seq = rel[r].seq + 1
         /\ UNCHANGED <<rel, exec, op, cluster, ready, readied, solo>>
<1>1. req \in [Request -> RequestRecord]
  BY DEF TypeOK
<1>2. PICK n : /\ req' = [req EXCEPT ![q] = [@ EXCEPT !.pc = "insert", !.seq = n]]
               /\ \/ Existing = {} /\ n = 1
                  \/ \E r \in Existing : IsLatest(r, Existing) /\ n = rel[r].seq + 1
  BY Zenon DEF ListReleases
<1>3. req'[q] = [req[q] EXCEPT !.pc = "insert", !.seq = n] /\ \A p \in Request \ {q} : req'[p] = req[p]
  BY <1>1, <1>2
<1>4. /\ req'[q].pc = "insert" /\ req'[q].seq = n
      /\ req'[q].kind = req[q].kind /\ req'[q].base = req[q].base /\ req'[q].source = req[q].source
      /\ req'[q].rid = req[q].rid /\ req'[q].image = req[q].image
  BY <1>1, <1>3 DEF RequestRecord
<1> QED
  BY ZenonT(40), <1>2, <1>3, <1>4 DEF ListReleases

(* The insert adds one draft under an unused number, or ends the request. *)
LEMMA InsertReleaseEffect ==
  ASSUME TypeOK, NEW q \in Request, InsertRelease(q)
  PROVE  /\ \A p \in Request \ {q} : req'[p] = req[p]
         /\ req[q].pc = "insert"
         /\ req'[q].kind = req[q].kind /\ req'[q].base = req[q].base /\ req'[q].source = req[q].source
         /\ req'[q].seq = req[q].seq /\ req'[q].image = req[q].image
         /\ \/ req'[q].pc = "done" /\ req'[q].rid = req[q].rid /\ rel' = rel
            \/ \E r \in ReleaseId \ Existing :
                 /\ ~SequenceTaken(req[q].seq)
                 /\ rel' = [rel EXCEPT ![r] = DraftRow(q)]
                 /\ req'[q].pc = "save" /\ req'[q].rid = r
         /\ UNCHANGED <<exec, op, cluster, ready, readied, solo>>
<1>1. req \in [Request -> RequestRecord]
  BY DEF TypeOK
<1>2. CASE EndRequest(q) /\ UNCHANGED rel
  BY Zenon, <1>2, EndRequestEffect DEF InsertRelease
<1>3. ASSUME NEW r \in ReleaseId \ Existing, ~SequenceTaken(req[q].seq),
             rel' = [rel EXCEPT ![r] = DraftRow(q)],
             req' = [req EXCEPT ![q] = [@ EXCEPT !.pc = "save", !.rid = r]]
      PROVE  /\ \A p \in Request \ {q} : req'[p] = req[p]
             /\ req'[q].kind = req[q].kind /\ req'[q].base = req[q].base /\ req'[q].source = req[q].source
             /\ req'[q].seq = req[q].seq /\ req'[q].image = req[q].image
             /\ req'[q].pc = "save" /\ req'[q].rid = r
  <2>1. req'[q] = [req[q] EXCEPT !.pc = "save", !.rid = r] /\ \A p \in Request \ {q} : req'[p] = req[p]
    BY <1>1, <1>3
  <2> QED
    BY <1>1, <2>1 DEF RequestRecord
<1> QED
  BY Zenon, <1>2, <1>3 DEF InsertRelease

(* The second save of a request touches the row it inserted, or nothing. *)
LEMMA SaveAttributionEffect ==
  ASSUME TypeOK, NEW q \in Request, SaveAttribution(q)
  PROVE  /\ \A p \in Request \ {q} : req'[p] = req[p]
         /\ req[q].pc = "save" /\ req'[q].pc \in {"launch", "done"}
         /\ req'[q].kind = req[q].kind /\ req'[q].base = req[q].base /\ req'[q].source = req[q].source
         /\ req'[q].seq = req[q].seq /\ req'[q].rid = req[q].rid /\ req'[q].image = req[q].image
         /\ \/ req'[q].pc = "done" /\ rel' = rel
            \/ rel' = [rel EXCEPT ![req[q].rid] = [DraftRow(q) EXCEPT !.template = req[q].template,
                                                                      !.source = req[q].source]]
         /\ UNCHANGED <<exec, op, cluster, ready, readied, solo>>
<1>1. req \in [Request -> RequestRecord]
  BY DEF TypeOK
<1>2. CASE EndRequest(q) /\ UNCHANGED rel
  BY Zenon, <1>2, EndRequestEffect DEF SaveAttribution
<1>3. CASE req' = [req EXCEPT ![q] = [@ EXCEPT !.pc = "launch"]]
  <2>1. req'[q] = [req[q] EXCEPT !.pc = "launch"] /\ \A p \in Request \ {q} : req'[p] = req[p]
    BY <1>1, <1>3
  <2>2. /\ req'[q].kind = req[q].kind /\ req'[q].base = req[q].base /\ req'[q].source = req[q].source
        /\ req'[q].seq = req[q].seq /\ req'[q].rid = req[q].rid /\ req'[q].image = req[q].image
        /\ req'[q].pc = "launch"
    BY <1>1, <2>1 DEF RequestRecord
  <2>3. req'[q].pc # "done"
    BY <2>2
  <2>4. rel' = [rel EXCEPT ![req[q].rid] = [DraftRow(q) EXCEPT !.template = req[q].template,
                                                               !.source = req[q].source]]
    BY Zenon, <2>3, EndRequestEffect DEF SaveAttribution
  <2> QED
    BY <2>1, <2>2, <2>4 DEF SaveAttribution
<1> QED
  BY <1>2, <1>3 DEF SaveAttribution

(* ExecuteAsync queues the executor of the request's own row, if any. *)
LEMMA LaunchEffect ==
  ASSUME TypeOK, NEW q \in Request, Launch(q)
  PROVE  /\ \A p \in Request \ {q} : req'[p] = req[p]
         /\ req[q].pc = "launch" /\ req'[q].pc = "done"
         /\ req'[q].kind = req[q].kind /\ req'[q].base = req[q].base /\ req'[q].source = req[q].source
         /\ req'[q].seq = req[q].seq /\ req'[q].rid = req[q].rid /\ req'[q].image = req[q].image
         /\ \/ exec' = exec
            \/ exec' = [exec EXCEPT ![req[q].rid] = [IdleExec EXCEPT !.pc = "queued"]]
         /\ UNCHANGED <<rel, op, cluster, ready, readied, solo>>
  BY Zenon, EndRequestEffect DEF Launch

(* A crash ends requests and executors and leaves rows and cluster alone. *)
LEMMA CrashEffect ==
  ASSUME TypeOK, Crash
  PROVE  /\ \A q \in Request :
              /\ req'[q].pc \in {"idle", "done"} /\ (req'[q].pc = "idle" => req[q].pc = "idle")
              /\ req'[q].kind = req[q].kind /\ req'[q].base = req[q].base /\ req'[q].source = req[q].source
              /\ req'[q].seq = req[q].seq /\ req'[q].rid = req[q].rid /\ req'[q].image = req[q].image
         /\ \A r \in ReleaseId : \/ exec'[r].pc = "none" /\ exec[r].pc = "none"
                                 \/ exec'[r].pc = "done" /\ exec[r].pc # "none"
         /\ UNCHANGED <<rel, op, cluster, ready, readied, solo>>
<1>1. exec \in [ReleaseId -> ExecRecord] /\ req \in [Request -> RequestRecord]
  BY DEF TypeOK
<1>2. \A r \in ReleaseId : \/ exec[r].pc = "none" /\ exec'[r] = exec[r]
                           \/ exec[r].pc # "none" /\ exec'[r] = [exec[r] EXCEPT !.pc = "done"]
  BY DEF Crash
<1>3. \A r \in ReleaseId : \/ exec'[r].pc = "none" /\ exec[r].pc = "none"
                           \/ exec'[r].pc = "done" /\ exec[r].pc # "none"
  BY Zenon, <1>1, <1>2 DEF ExecRecord
<1>4. \A q \in Request : \/ req[q].pc = "idle" /\ req'[q] = req[q]
                         \/ req'[q] = [req[q] EXCEPT !.pc = "done"]
  BY DEF Crash
<1>5. \A q \in Request :
        /\ req'[q].pc \in {"idle", "done"} /\ (req'[q].pc = "idle" => req[q].pc = "idle")
        /\ req'[q].kind = req[q].kind /\ req'[q].base = req[q].base /\ req'[q].source = req[q].source
        /\ req'[q].seq = req[q].seq /\ req'[q].rid = req[q].rid /\ req'[q].image = req[q].image
  <2> TAKE q \in Request
  <2>1. req[q] \in RequestRecord
    BY <1>1
  <2>2. CASE req[q].pc = "idle" /\ req'[q] = req[q]
    BY <2>2
  <2>3. CASE req'[q] = [req[q] EXCEPT !.pc = "done"]
    BY <2>1, <2>3 DEF RequestRecord
  <2> QED
    BY <1>4, <2>2, <2>3
<1> QED
  BY <1>3, <1>5 DEF Crash

-----------------------------------------------------------------------------
(* The control invariant.                                                  *)

(* Progress keeps what identifies a release. *)
LEMMA ProgressKeeps ==
  ASSUME NEW old \in Row, NEW new, Progress(old, new)
  PROVE  /\ new.seq = old.seq /\ new.image = old.image
         /\ new.template = old.template /\ new.source = old.source
         /\ new.status = "absent" <=> old.status = "absent"
         /\ old.status \in Terminal => new = old
  BY DEF Progress, Advanced, Row, InProgress, Terminal

(* A request keeps its row when neither of the two is touched. *)
LEMMA OwnsFrame ==
  ASSUME NEW p, Owns(p), req'[p] = req[p],
         req[p].rid # None => exec'[req[p].rid].pc = exec[req[p].rid].pc /\ rel'[req[p].rid] = rel[req[p].rid]
  PROVE  Owns(p)'
  BY DEF Owns, Existing, DraftRow

(* Initially and after every step, control state and rows agree. *)
LEMMA ControlInit == Init => ControlInv
<1> SUFFICES ASSUME Init PROVE ControlInv
  OBVIOUS
<1>1. ExecutorInv
  BY Zenon DEF Init, ExecutorInv, Consistent, NoRow, IdleExec
<1>2. OwnershipInv
  BY DEF Init, OwnershipInv, Owns, IdleRequest
<1> QED
  BY <1>1, <1>2 DEF ControlInv

(* Every step keeps requests and executors in agreement with the rows. *)
LEMMA ControlStep ==
  ASSUME TypeOK, TypeOK', ControlInv, [Next]_vars
  PROVE  ControlInv'
<1> USE DEF ControlInv
<1>a. /\ exec \in [ReleaseId -> ExecRecord] /\ rel \in [ReleaseId -> Row]
      /\ req \in [Request -> RequestRecord]
  BY DEF TypeOK
<1>b. \A q \in Request : req[q].rid # None => req[q].rid \in ReleaseId
  BY <1>a DEF RequestRecord
<1>1. ASSUME NEW q \in Request, Begin(q) PROVE ControlInv'
  <2>1. ExecutorInv'
    BY Zenon, <1>1, BeginEffect DEF ExecutorInv
  <2>2. Owns(q)'
    BY Zenon, <1>1, BeginEffect DEF Owns
  <2>3. \A p \in Request \ {q} : Owns(p)'
    BY Zenon, <1>1, BeginEffect, OwnsFrame DEF OwnershipInv
  <2>4. \A p1, p2 \in Request : req'[p1].rid = req'[p2].rid /\ req'[p1].rid # None => p1 = p2
    BY <1>1, BeginEffect DEF OwnershipInv
  <2> QED
    BY Zenon, <2>1, <2>2, <2>3, <2>4 DEF OwnershipInv
<1>2. ASSUME NEW q \in Request, ListReleases(q) PROVE ControlInv'
  <2>1. ExecutorInv'
    BY Zenon, <1>2, ListReleasesEffect DEF ExecutorInv
  <2>2. Owns(q)'
    BY Zenon, <1>2, ListReleasesEffect DEF OwnershipInv, Owns
  <2>3. \A p \in Request \ {q} : Owns(p)'
    BY <1>2, ListReleasesEffect, OwnsFrame DEF OwnershipInv
  <2>4. \A p1, p2 \in Request : req'[p1].rid = req'[p2].rid /\ req'[p1].rid # None => p1 = p2
    BY <1>2, ListReleasesEffect DEF OwnershipInv
  <2> QED
    BY Zenon, <2>1, <2>2, <2>3, <2>4 DEF OwnershipInv
<1>3. ASSUME NEW q \in Request, InsertRelease(q) PROVE ControlInv'
  <2>1. req[q].rid = None
    BY Zenon, <1>3, InsertReleaseEffect DEF OwnershipInv, Owns
  <2>2. CASE req'[q].pc = "done" /\ req'[q].rid = req[q].rid /\ rel' = rel
    <3>1. ExecutorInv'
      BY Zenon, <1>3, <2>2, InsertReleaseEffect DEF ExecutorInv
    <3>2. Owns(q)'
      BY Zenon, <2>1, <2>2 DEF Owns
    <3>3. \A p \in Request \ {q} : Owns(p)'
      BY Zenon, <1>3, <2>2, InsertReleaseEffect, OwnsFrame DEF OwnershipInv
    <3>4. \A p1, p2 \in Request : req'[p1].rid = req'[p2].rid /\ req'[p1].rid # None => p1 = p2
      BY <1>3, <2>1, <2>2, InsertReleaseEffect DEF OwnershipInv
    <3> QED
      BY Zenon, <3>1, <3>2, <3>3, <3>4 DEF OwnershipInv
  <2>3. ASSUME NEW r \in ReleaseId \ Existing, rel' = [rel EXCEPT ![r] = DraftRow(q)],
               req'[q].pc = "save", req'[q].rid = r
        PROVE  ControlInv'
    <3>1. exec[r].pc = "none"
      BY Zenon DEF Existing, ExecutorInv, Consistent
    <3>2. rel'[r] = DraftRow(q) /\ \A x \in ReleaseId \ {r} : rel'[x] = rel[x]
      BY <1>a, <2>3
    <3>3. /\ DraftRow(q).status = "draft" /\ DraftRow(q).seq = req[q].seq
          /\ DraftRow(q).image = req[q].image
      BY Zenon DEF DraftRow, NoRow
    <3>4. Consistent(rel'[r], exec'[r])
      BY Zenon, <1>3, <3>1, <3>2, <3>3, InsertReleaseEffect DEF Consistent
    <3>5. ExecutorInv'
      BY Zenon, <1>3, <3>2, <3>4, InsertReleaseEffect DEF ExecutorInv
    <3>6. r # None /\ \A p \in Request : req[p].rid # r
      BY ConstantsAssumption DEF OwnershipInv, Owns
    <3>7. DraftRow(q)' = DraftRow(q)
      BY Zenon, <1>3, InsertReleaseEffect DEF DraftRow
    <3>8. Owns(q)'
      BY <1>3, <2>3, <3>1, <3>2, <3>3, <3>6, <3>7, InsertReleaseEffect DEF Owns, Existing
    <3>9. ASSUME NEW p \in Request \ {q} PROVE Owns(p)'
      <4>1. req'[p] = req[p] /\ exec' = exec
        BY Zenon, <1>3, InsertReleaseEffect
      <4>2. Owns(p) /\ (req[p].rid # None => rel'[req[p].rid] = rel[req[p].rid])
        BY Zenon, <1>b, <3>2, <3>6 DEF OwnershipInv
      <4> QED
        BY <4>1, <4>2 DEF Owns, Existing, DraftRow
    <3>10. \A p1, p2 \in Request : req'[p1].rid = req'[p2].rid /\ req'[p1].rid # None => p1 = p2
      BY <1>3, <2>3, <3>6, InsertReleaseEffect DEF OwnershipInv
    <3> QED
      BY Zenon, <3>5, <3>8, <3>9, <3>10 DEF OwnershipInv
  <2> QED
    BY Zenon, <1>3, <2>2, <2>3, InsertReleaseEffect
<1>4. ASSUME NEW q \in Request, SaveAttribution(q) PROVE ControlInv'
  <2> DEFINE r == req[q].rid
  <2>1. /\ r \in ReleaseId /\ exec[r].pc = "none" /\ rel[r].status = "draft"
        /\ r # None /\ rel[r] = DraftRow(q)
    BY Zenon, <1>4, <1>b, SaveAttributionEffect DEF OwnershipInv, Owns
  <2>2. /\ \A x \in ReleaseId \ {r} : rel'[x] = rel[x]
        /\ rel'[r].status = "draft" /\ rel'[r].seq = rel[r].seq /\ rel'[r].image = rel[r].image
    <3>1. CASE rel' = rel
      BY <2>1, <3>1
    <3>2. CASE rel' = [rel EXCEPT ![req[q].rid] = [DraftRow(q) EXCEPT !.template = req[q].template,
                                                                      !.source = req[q].source]]
      <4>1. /\ rel'[r] = [rel[r] EXCEPT !.template = req[q].template, !.source = req[q].source]
            /\ \A x \in ReleaseId \ {r} : rel'[x] = rel[x]
        BY <1>a, <2>1, <3>2
      <4> QED
        BY <1>a, <2>1, <4>1 DEF Row
    <3> QED
      BY Zenon, <1>4, <3>1, <3>2, SaveAttributionEffect
  <2>a. /\ exec' = exec /\ req'[q].pc \in {"launch", "done"} /\ req'[q].rid = req[q].rid
        /\ req'[q].seq = req[q].seq /\ req'[q].image = req[q].image
        /\ \A p \in Request \ {q} : req'[p] = req[p]
    BY Zenon, <1>4, SaveAttributionEffect
  <2>3. ExecutorInv'
    <3>1. Consistent(rel'[r], exec'[r])
      BY Zenon, <2>1, <2>2, <2>a DEF Consistent
    <3> QED
      BY Zenon, <2>2, <2>a, <3>1 DEF ExecutorInv
  <2>4. Owns(q)'
    <3>1. rel[r].seq = req[q].seq /\ rel[r].image = req[q].image
      BY Zenon, <2>1 DEF OwnershipInv, Owns
    <3> QED
      BY Zenon, <2>1, <2>2, <2>a, <3>1 DEF Owns, Existing
  <2>5. ASSUME NEW p \in Request \ {q} PROVE Owns(p)'
    <3>1. req'[p] = req[p] /\ exec' = exec
      BY Zenon, <1>4, SaveAttributionEffect
    <3>2. Owns(p) /\ (req[p].rid # None => rel'[req[p].rid] = rel[req[p].rid])
      BY Zenon, <1>b, <2>1, <2>2 DEF OwnershipInv
    <3> QED
      BY <3>1, <3>2 DEF Owns, Existing, DraftRow
  <2>6. \A p1, p2 \in Request : req'[p1].rid = req'[p2].rid /\ req'[p1].rid # None => p1 = p2
    BY <2>a DEF OwnershipInv
  <2> QED
    BY <2>3, <2>4, <2>5, <2>6 DEF OwnershipInv
<1>5. ASSUME NEW q \in Request, Launch(q) PROVE ControlInv'
  <2> DEFINE r == req[q].rid
  <2>1. r \in ReleaseId /\ exec[r].pc = "none" /\ rel[r].status = "draft" /\ r # None
    BY <1>5, <1>b, LaunchEffect DEF OwnershipInv, Owns
  <2>2. \A x \in ReleaseId \ {r} : exec'[x] = exec[x]
    BY <1>5, <1>a, <2>1, LaunchEffect
  <2>3. exec'[r].pc \in {"none", "queued"}
    BY <1>5, <1>a, <2>1, LaunchEffect DEF IdleExec
  <2>4. ExecutorInv'
    BY <1>5, <2>1, <2>2, <2>3, LaunchEffect DEF ExecutorInv, Consistent
  <2>5. Owns(q)'
    BY <1>5, <2>1, LaunchEffect DEF OwnershipInv, Owns, Existing
  <2>6. ASSUME NEW p \in Request \ {q} PROVE Owns(p)'
    <3>1. req'[p] = req[p] /\ rel' = rel
      BY Zenon, <1>5, LaunchEffect
    <3>2. Owns(p) /\ (req[p].rid # None => exec'[req[p].rid] = exec[req[p].rid])
      BY <1>b, <2>1, <2>2 DEF OwnershipInv
    <3> QED
      BY <3>1, <3>2 DEF Owns, Existing, DraftRow
  <2>7. \A p1, p2 \in Request : req'[p1].rid = req'[p2].rid /\ req'[p1].rid # None => p1 = p2
    BY <1>5, LaunchEffect DEF OwnershipInv
  <2> QED
    BY <2>4, <2>5, <2>6, <2>7 DEF OwnershipInv
<1>6. ASSUME NEW r \in ReleaseId, Execute(r) PROVE ControlInv'
  <2>1. /\ exec[r].pc # "none" /\ UNCHANGED req
        /\ \A x \in ReleaseId \ {r} : exec'[x] = exec[x] /\ rel'[x] = rel[x]
        /\ Progress(rel[r], rel'[r]) /\ Consistent(rel'[r], exec'[r])
    BY Zenon, <1>6, ExecuteEffect
  <2>2. ExecutorInv'
    BY <2>1 DEF ExecutorInv
  <2>3. ASSUME NEW p \in Request PROVE Owns(p)'
    <3>1. CASE req[p].rid = r
      <4>1. rel[r].status # "absent" => rel'[r].status # "absent"
        BY Zenon, <1>a, <2>1, ProgressKeeps
      <4>2. rel'[r].seq = rel[r].seq /\ rel'[r].image = rel[r].image
        BY <1>a, <2>1, ProgressKeeps
      <4>3. Owns(p)
        BY Zenon DEF OwnershipInv
      <4> QED
        BY Zenon, <2>1, <3>1, <4>1, <4>2, <4>3 DEF Owns, Existing
    <3>2. CASE req[p].rid # r
      <4>1. Owns(p) /\ (req[p].rid # None =>
              exec'[req[p].rid] = exec[req[p].rid] /\ rel'[req[p].rid] = rel[req[p].rid])
        BY Zenon, <1>b, <2>1, <3>2 DEF OwnershipInv
      <4> QED
        BY Zenon, <2>1, <4>1 DEF Owns, Existing, DraftRow
    <3> QED
      BY Zenon, <3>1, <3>2
  <2> QED
    BY Zenon, <2>1, <2>2, <2>3 DEF OwnershipInv
<1>7. CASE Crash
  <2>1. ExecutorInv'
    BY <1>7, CrashEffect DEF ExecutorInv, Consistent
  <2>2. \A p \in Request : Owns(p)'
    BY <1>7, CrashEffect DEF OwnershipInv, Owns, Existing
  <2>3. \A p1, p2 \in Request : req'[p1].rid = req'[p2].rid /\ req'[p1].rid # None => p1 = p2
    BY <1>7, CrashEffect DEF OwnershipInv
  <2> QED
    BY Zenon, <2>1, <2>2, <2>3 DEF OwnershipInv
<1>8. CASE WorkloadReady \/ WorkloadUnready \/ UNCHANGED vars
  <2>1. UNCHANGED <<rel, req, exec>>
    BY <1>8 DEF WorkloadReady, WorkloadUnready, vars
  <2> QED
    BY Zenon, <2>1 DEF ExecutorInv, OwnershipInv, Owns, Existing, DraftRow
<1> QED
  BY <1>1, <1>2, <1>3, <1>4, <1>5, <1>6, <1>7, <1>8 DEF Next

-----------------------------------------------------------------------------
(* The theorems.                                                           *)

(* Control state and rows agree in every reachable state: in particular an *)
(* executor never saves a stale copy of its row over a newer one.          *)
THEOREM ControlCorrect == Spec => [](TypeOK /\ ControlInv)
<1>1. Init => ControlInv
  BY ControlInit
<1>2. TypeOK /\ TypeOK' /\ ControlInv /\ [Next]_vars => ControlInv'
  BY ControlStep
<1> QED
  BY <1>1, <1>2, TypeCorrect, PTL DEF Spec

(* What a step may do to a row: create a draft, add the template and the   *)
(* source to it, or take it one status further.                            *)
LEMMA RowStep ==
  ASSUME TypeOK, ControlInv, [Next]_vars
  PROVE  \/ UNCHANGED rel
         \/ \E q \in Request, r \in ReleaseId \ Existing :
              /\ InsertRelease(q) /\ ~SequenceTaken(req[q].seq)
              /\ rel' = [rel EXCEPT ![r] = DraftRow(q)]
         \/ \E q \in Request :
              /\ SaveAttribution(q)
              /\ rel' = [rel EXCEPT ![req[q].rid] = [DraftRow(q) EXCEPT !.template = req[q].template,
                                                                        !.source = req[q].source]]
         \/ \E r \in ReleaseId :
              /\ Execute(r) /\ Progress(rel[r], rel'[r])
              /\ \A x \in ReleaseId \ {r} : rel'[x] = rel[x]
<1>1. ASSUME NEW q \in Request, InsertRelease(q)
      PROVE  \/ UNCHANGED rel
             \/ \E r \in ReleaseId \ Existing :
                  ~SequenceTaken(req[q].seq) /\ rel' = [rel EXCEPT ![r] = DraftRow(q)]
  BY <1>1, InsertReleaseEffect
<1>2. ASSUME NEW q \in Request, SaveAttribution(q)
      PROVE  \/ UNCHANGED rel
             \/ rel' = [rel EXCEPT ![req[q].rid] = [DraftRow(q) EXCEPT !.template = req[q].template,
                                                                       !.source = req[q].source]]
  BY Zenon, <1>2, SaveAttributionEffect
<1>3. ASSUME NEW r \in ReleaseId, Execute(r)
      PROVE  Progress(rel[r], rel'[r]) /\ \A x \in ReleaseId \ {r} : rel'[x] = rel[x]
  BY <1>3, ExecuteEffect DEF ControlInv
<1>4. ASSUME NEW q \in Request, Begin(q) \/ ListReleases(q) \/ Launch(q)
      PROVE  UNCHANGED rel
  BY Zenon, <1>4 DEF Begin, ListReleases, Launch
<1>5. WorkloadReady \/ WorkloadUnready \/ Crash \/ UNCHANGED vars => UNCHANGED rel
  BY Zenon DEF WorkloadReady, WorkloadUnready, Crash, vars
<1> QED
  BY Zenon, <1>1, <1>2, <1>3, <1>4, <1>5 DEF Next

(* Between two saves of one request nobody else touches its row. *)
LEMMA SaveRow ==
  ASSUME TypeOK, ControlInv, NEW q \in Request, SaveAttribution(q),
         rel' = [rel EXCEPT ![req[q].rid] = [DraftRow(q) EXCEPT !.template = req[q].template,
                                                                !.source = req[q].source]]
  PROVE  LET r == req[q].rid
         IN  /\ r \in ReleaseId /\ rel[r] = DraftRow(q)
             /\ rel'[r].seq = rel[r].seq /\ rel'[r].image = rel[r].image
             /\ rel'[r].status = "draft" /\ rel[r].status = "draft"
             /\ rel[r].template = None /\ rel[r].source = None
             /\ rel'[r].template = req[q].template /\ rel'[r].source = req[q].source
             /\ \A x \in ReleaseId \ {r} : rel'[x] = rel[x]
<1> DEFINE r == req[q].rid
<1>a. rel \in [ReleaseId -> Row] /\ req \in [Request -> RequestRecord]
  BY Zenon DEF TypeOK
<1>1. r # None /\ rel[r] = DraftRow(q)
  BY DEF SaveAttribution, ControlInv, OwnershipInv, Owns
<1>2. r \in ReleaseId
  BY <1>a, <1>1 DEF RequestRecord
<1>3. /\ rel'[r] = [DraftRow(q) EXCEPT !.template = req[q].template, !.source = req[q].source]
      /\ \A x \in ReleaseId \ {r} : rel'[x] = rel[x]
  BY Zenon, <1>a, <1>2
<1>4. /\ DraftRow(q).template = None /\ DraftRow(q).source = None /\ DraftRow(q).status = "draft"
      /\ rel'[r].seq = DraftRow(q).seq /\ rel'[r].image = DraftRow(q).image
      /\ rel'[r].status = "draft"
      /\ rel'[r].template = req[q].template /\ rel'[r].source = req[q].source
  <2>1. DraftRow(q).template = None /\ DraftRow(q).source = None /\ DraftRow(q).status = "draft"
    BY DEF DraftRow, NoRow
  <2>2. DraftRow(q) \in Row
    BY RowTypes
  <2>3. /\ rel'[r].seq = DraftRow(q).seq /\ rel'[r].image = DraftRow(q).image
        /\ rel'[r].status = DraftRow(q).status
        /\ rel'[r].template = req[q].template /\ rel'[r].source = req[q].source
    <3>1. ASSUME NEW d \in Row, NEW t, NEW z
          PROVE  LET e == [d EXCEPT !.template = t, !.source = z]
                 IN  e.seq = d.seq /\ e.image = d.image /\ e.status = d.status /\ e.template = t /\ e.source = z
      BY DEF Row
    <3> DEFINE e == [DraftRow(q) EXCEPT !.template = req[q].template, !.source = req[q].source]
    <3>2. /\ e.seq = DraftRow(q).seq /\ e.image = DraftRow(q).image /\ e.status = DraftRow(q).status
          /\ e.template = req[q].template /\ e.source = req[q].source
      BY <2>2, <3>1
    <3>3. rel'[r] = e
      BY <1>3
    <3> HIDE DEF e, r
    <3> QED
      BY <3>2, <3>3, Zenon
  <2> QED
    BY <2>1, <2>3
<1> QED
  BY <1>1, <1>2, <1>3, <1>4

(* What a step keeps of the stored releases. *)
Kept ==
  \A r \in Existing :
    /\ rel'[r].seq = rel[r].seq
    /\ rel'[r].image = rel[r].image
    /\ rel[r].template # None => rel'[r].template = rel[r].template
    /\ rel[r].source # None => rel'[r].source = rel[r].source

(* No step removes a row or changes its number or image, and a release that
   succeeded stays so. *)
LEMMA RowsKept ==
  ASSUME TypeOK, ControlInv, [Next]_vars
  PROVE  Kept /\ Existing \subseteq Existing' /\ Succeeded \subseteq Succeeded'
<1> DEFINE Goal == Kept /\ Existing \subseteq Existing' /\ Succeeded \subseteq Succeeded'
<1>a. rel \in [ReleaseId -> Row]
  BY DEF TypeOK
<1>1. CASE UNCHANGED rel
  BY <1>1 DEF Kept, Existing, Succeeded
<1>2. ASSUME NEW q \in Request, NEW r \in ReleaseId \ Existing, rel' = [rel EXCEPT ![r] = DraftRow(q)]
      PROVE  Goal
  <2>1. \A x \in Existing : rel'[x] = rel[x]
    BY <1>a, <1>2 DEF Existing
  <2> QED
    BY <2>1 DEF Kept, Existing, Succeeded
<1>3. ASSUME NEW q \in Request, SaveAttribution(q),
             rel' = [rel EXCEPT ![req[q].rid] = [DraftRow(q) EXCEPT !.template = req[q].template,
                                                                    !.source = req[q].source]]
      PROVE  Goal
  <2>1. Kept
    BY Zenon, <1>3, SaveRow DEF Existing, Kept
  <2>2. \A x \in ReleaseId : rel'[x].status = rel[x].status
    BY Zenon, <1>3, SaveRow
  <2> QED
    BY <2>1, <2>2 DEF Existing, Succeeded
<1>4. ASSUME NEW r \in ReleaseId, Progress(rel[r], rel'[r]), \A x \in ReleaseId \ {r} : rel'[x] = rel[x]
      PROVE  Goal
  <2>1. /\ rel'[r].seq = rel[r].seq /\ rel'[r].image = rel[r].image
        /\ rel'[r].template = rel[r].template /\ rel'[r].source = rel[r].source
        /\ rel'[r].status = "absent" <=> rel[r].status = "absent"
        /\ rel[r].status \in Terminal => rel'[r] = rel[r]
    BY <1>a, <1>4, ProgressKeeps
  <2>2. Kept
    BY <1>4, <2>1 DEF Kept, Existing
  <2> QED
    BY <1>4, <2>1, <2>2 DEF Existing, Succeeded, Terminal
<1> QED
  BY Zenon, <1>1, <1>2, <1>3, <1>4, RowStep

(* ReleaseImmutable: no step changes the sequence number or the image of a *)
(* stored release, nor a template or a source once it is stored.           *)
THEOREM Immutable == Spec => ReleaseImmutable
<1>1. TypeOK /\ ControlInv /\ [Next]_vars => [Kept]_vars
  BY RowsKept
<1> QED
  BY <1>1, ControlCorrect, PTL DEF Spec, ReleaseImmutable, Kept

(* Refinement: the rows behave like the status machine of ReleaseStatus.   *)
THEOREM Refinement == Spec => StatusMachine
<1> DEFINE status == [r \in ReleaseId |-> rel[r].status]
<1>1. Init => Abs!Init
  BY DEF Init, Abs!Init, NoRow
<1>2. ASSUME TypeOK, ControlInv, [Next]_vars PROVE [Abs!Next]_status
  <2>a. rel \in [ReleaseId -> Row]
    BY <1>2 DEF TypeOK
  <2>1. CASE UNCHANGED rel
    BY <2>1
  <2>2. ASSUME NEW q \in Request, NEW r \in ReleaseId \ Existing, rel' = [rel EXCEPT ![r] = DraftRow(q)]
        PROVE  [Abs!Next]_status
    <3>1. rel[r].status = "absent" /\ rel'[r].status = "draft"
      BY <2>a, <2>2 DEF Existing, DraftRow, NoRow
    <3>2. status' = [status EXCEPT ![r] = "draft"]
      BY Zenon, <2>a, <2>2, <3>1
    <3>3. Abs!Advance(r)
      BY Zenon, <3>1, <3>2 DEF Abs!Advance, Abs!Successor, Abs!Status, Abs!Terminal, Abs!InProgress
    <3> QED
      BY <3>3 DEF Abs!Next
  <2>3. ASSUME NEW q \in Request, SaveAttribution(q),
               rel' = [rel EXCEPT ![req[q].rid] = [DraftRow(q) EXCEPT !.template = req[q].template,
                                                                      !.source = req[q].source]]
        PROVE  UNCHANGED status
    <3>1. \A x \in ReleaseId : rel'[x].status = rel[x].status
      BY Zenon, <1>2, <2>3, SaveRow
    <3> QED
      BY <3>1
  <2>4. ASSUME NEW r \in ReleaseId, Progress(rel[r], rel'[r]), \A x \in ReleaseId \ {r} : rel'[x] = rel[x]
        PROVE  [Abs!Next]_status
    <3>1. rel[r] \in Row
      BY <2>a
    <3>2. CASE rel'[r] = rel[r]
      BY <2>4, <3>2
    <3>3. ASSUME NEW s \in Status, rel'[r] = Advanced(rel[r], s)
          PROVE  rel'[r].status = s /\ status' = [status EXCEPT ![r] = s]
      <4>1. rel'[r].status = s
        BY <3>1, <3>3 DEF Advanced, Row
      <4> QED
        BY Zenon, <2>4, <4>1
    <3>4. CASE rel[r].status \in {"draft"} \cup InProgress /\ rel'[r] = Advanced(rel[r], "failed")
      <4>1. Abs!Fail(r)
        BY Zenon, <3>3, <3>4 DEF Abs!Fail, Abs!InProgress, InProgress, Status, Terminal
      <4> QED
        BY <4>1 DEF Abs!Next
    <3>5. ASSUME NEW s \in Status, rel'[r] = Advanced(rel[r], s),
                 <<rel[r].status, s>> \in {<<"draft", "validating">>, <<"validating", "applying">>,
                                           <<"applying", "waiting_ready">>, <<"waiting_ready", "succeeded">>}
          PROVE  [Abs!Next]_status
      <4>1. Abs!Successor[rel[r].status] = s /\ rel[r].status \notin Abs!Terminal
        BY <3>5 DEF Abs!Successor, Abs!Status, Abs!Terminal, Abs!InProgress
      <4>2. Abs!Advance(r)
        BY <3>3, <3>5, <4>1 DEF Abs!Advance
      <4> QED
        BY <4>2 DEF Abs!Next
    <3> QED
      BY <2>4, <3>2, <3>4, <3>5 DEF Progress, Status, InProgress, Terminal
  <2> QED
    BY Zenon, <1>2, <2>1, <2>2, <2>3, <2>4, RowStep
<1>3. TypeOK /\ ControlInv /\ [Next]_vars => [Abs!Next]_status
  BY <1>2
<1> QED
  BY <1>1, <1>3, ControlCorrect, PTL DEF Spec, StatusMachine, Abs!Spec

-----------------------------------------------------------------------------
(* Sequence numbers.                                                       *)

(* A number that a request computed follows on from the stored ones. *)
SequenceInv ==
  /\ SequenceDense
  /\ \A q \in Request : req[q].pc = "insert" =>
       req[q].seq >= 1 /\ \A n \in 1..(req[q].seq - 1) : SequenceTaken(n)

(* Only ListReleases brings a request to its insert. *)
LEMMA InsertFrame ==
  ASSUME TypeOK, ControlInv, [Next]_vars, NEW q \in Request, req'[q].pc = "insert"
  PROVE  req'[q] = req[q] \/ ListReleases(q)
<1>1. ASSUME NEW p \in Request, Begin(p) PROVE req'[q] = req[q]
  BY <1>1, BeginEffect
<1>2. ASSUME NEW p \in Request, ListReleases(p) PROVE req'[q] = req[q] \/ ListReleases(q)
  BY <1>2, ListReleasesEffect
<1>3. ASSUME NEW p \in Request, InsertRelease(p) PROVE req'[q] = req[q]
  BY <1>3, InsertReleaseEffect
<1>4. ASSUME NEW p \in Request, SaveAttribution(p) PROVE req'[q] = req[q]
  BY Zenon, <1>4, SaveAttributionEffect
<1>5. ASSUME NEW p \in Request, Launch(p) PROVE req'[q] = req[q]
  BY <1>5, LaunchEffect
<1>6. ASSUME NEW r \in ReleaseId, Execute(r) PROVE req'[q] = req[q]
  BY <1>6, ExecuteEffect DEF ControlInv
<1>7. ~Crash
  BY CrashEffect
<1>8. WorkloadReady \/ WorkloadUnready \/ UNCHANGED vars => req'[q] = req[q]
  BY DEF WorkloadReady, WorkloadUnready, vars
<1> QED
  BY <1>1, <1>2, <1>3, <1>4, <1>5, <1>6, <1>7, <1>8 DEF Next

(* Every step keeps the sequence numbers unique and without gaps. *)
LEMMA SequenceStep ==
  ASSUME TypeOK, TypeOK', ControlInv, SequenceInv, [Next]_vars
  PROVE  SequenceInv'
<1>a. /\ rel \in [ReleaseId -> Row] /\ rel' \in [ReleaseId -> Row]
      /\ req \in [Request -> RequestRecord] /\ req' \in [Request -> RequestRecord]
  BY DEF TypeOK
<1>b. \A r \in ReleaseId : rel[r].seq \in Nat /\ rel'[r].seq \in Nat
  BY <1>a DEF Row
<1>c. \A q \in Request : req[q].seq \in Nat
  BY <1>a DEF RequestRecord
<1>d. Existing \subseteq ReleaseId
  BY DEF Existing
<1>1. Existing \subseteq Existing' /\ \A r \in Existing : rel'[r].seq = rel[r].seq
  BY RowsKept DEF Kept
<1>2. \A n : SequenceTaken(n) => SequenceTaken(n)'
  BY Zenon, <1>1 DEF SequenceTaken
<1>3. ASSUME NEW q \in Request, req'[q].pc = "insert"
      PROVE  req'[q].seq >= 1 /\ \A n \in 1..(req'[q].seq - 1) : SequenceTaken(n)'
  <2>1. CASE req'[q] = req[q]
    BY <1>2, <1>3, <2>1 DEF SequenceInv
  <2>2. ASSUME ListReleases(q), Existing = {}, req'[q].seq = 1
        PROVE  req'[q].seq >= 1 /\ \A n \in 1..(req'[q].seq - 1) : SequenceTaken(n)'
    BY <2>2
  <2>3. ASSUME ListReleases(q), NEW r \in Existing, req'[q].seq = rel[r].seq + 1
        PROVE  req'[q].seq >= 1 /\ \A n \in 1..(req'[q].seq - 1) : SequenceTaken(n)'
    <3>1. \A n \in 1..rel[r].seq : SequenceTaken(n)
      BY DEF SequenceInv, SequenceDense, SequenceTaken
    <3>2. rel[r].seq \in Nat /\ req'[q].seq - 1 = rel[r].seq
      BY <1>b, <1>d, <2>3
    <3> QED
      BY <1>2, <2>3, <3>1, <3>2
  <2> QED
    BY <1>3, <2>1, <2>2, <2>3, InsertFrame, ListReleasesEffect
<1>4. SequenceDense'
  <2>1. CASE Existing' = Existing
    BY <1>1, <2>1 DEF SequenceInv, SequenceDense
  <2>2. ASSUME NEW q \in Request, NEW r \in ReleaseId \ Existing, InsertRelease(q),
               ~SequenceTaken(req[q].seq), rel' = [rel EXCEPT ![r] = DraftRow(q)]
        PROVE  SequenceDense'
    <3>1. /\ \A x \in ReleaseId \ {r} : rel'[x] = rel[x]
          /\ rel'[r].seq = req[q].seq /\ rel'[r].status = "draft"
      BY <1>a, <2>2 DEF DraftRow, NoRow
    <3>2. Existing' = Existing \cup {r}
      BY <2>2, <3>1 DEF Existing
    <3>3. \A x \in Existing : rel'[x].seq # rel'[r].seq
      BY <1>1, <2>2, <3>1 DEF SequenceTaken
    <3>4. \A x, y \in Existing' : rel'[x].seq = rel'[y].seq => x = y
      BY <1>1, <3>2, <3>3 DEF SequenceInv, SequenceDense
    <3>5. \A n \in 1..(req[q].seq - 1) : SequenceTaken(n)
      BY <2>2, InsertReleaseEffect DEF SequenceInv
    <3>6. \A n \in 1..rel'[r].seq : \E x \in Existing' : rel'[x].seq = n
      <4> TAKE n \in 1..rel'[r].seq
      <4>1. CASE n = req[q].seq
        BY <3>1, <3>2, <4>1
      <4>2. CASE n # req[q].seq
        <5>1. n \in 1..(req[q].seq - 1)
          BY <1>c, <3>1, <4>2
        <5> QED
          BY <1>2, <3>5, <5>1 DEF SequenceTaken
      <4> QED
        BY <4>1, <4>2
    <3>7. \A y \in Existing : \A n \in 1..rel'[y].seq : \E x \in Existing' : rel'[x].seq = n
      BY <1>1 DEF SequenceInv, SequenceDense
    <3> QED
      BY <3>2, <3>4, <3>6, <3>7 DEF SequenceDense
  <2>3. CASE UNCHANGED rel
    BY <2>1, <2>3 DEF Existing
  <2>4. ASSUME NEW q \in Request, SaveAttribution(q),
               rel' = [rel EXCEPT ![req[q].rid] = [DraftRow(q) EXCEPT !.template = req[q].template,
                                                                      !.source = req[q].source]]
        PROVE  SequenceDense'
    <3>1. \A x \in ReleaseId : rel'[x].status = rel[x].status
      BY Zenon, <2>4, SaveRow
    <3> QED
      BY <2>1, <3>1 DEF Existing
  <2>5. ASSUME NEW r \in ReleaseId, Progress(rel[r], rel'[r]), \A x \in ReleaseId \ {r} : rel'[x] = rel[x]
        PROVE  SequenceDense'
    <3>1. rel'[r].status = "absent" <=> rel[r].status = "absent"
      BY <1>a, <2>5, ProgressKeeps
    <3> QED
      BY <2>1, <2>5, <3>1 DEF Existing
  <2> QED
    BY Zenon, <2>2, <2>3, <2>4, <2>5, RowStep
<1> QED
  BY <1>3, <1>4 DEF SequenceInv

(* SequenceDense: the sequence numbers of the stored releases are unique   *)
(* and without gaps, although CreateRelease computes them without a lock.  *)
THEOREM Sequences == Spec => []SequenceDense
<1>1. Init => SequenceInv
  BY DEF Init, SequenceInv, SequenceDense, Existing, NoRow, IdleRequest
<1>2. TypeOK /\ TypeOK' /\ ControlInv /\ SequenceInv /\ [Next]_vars => SequenceInv'
  BY SequenceStep
<1>3. SequenceInv => SequenceDense
  BY Zenon DEF SequenceInv
<1> QED
  BY <1>1, <1>2, <1>3, ControlCorrect, PTL DEF Spec

-----------------------------------------------------------------------------
(* Operations.                                                             *)

(* The steps that have succeeded when an executor is at pc. *)
Passed(pc) ==
  CASE pc = "preflight" -> {"verify_image"}
    [] pc \in {"to_applying", "apply_resources"} -> {"verify_image", "preflight"}
    [] pc = "sync_endpoints" -> {"verify_image", "preflight", "apply_resources"}
    [] pc \in {"to_waiting_ready", "wait_ready"} -> Step \ {"wait_ready"}
    [] pc = "to_succeeded" -> Step
    [] OTHER -> {}

StepsOf(pc, ops) == \A s \in Passed(pc) : ops[s] = "success"

StatusOps(status, ops) ==
  /\ status = "applying" => \A s \in {"verify_image", "preflight"} : ops[s] = "success"
  /\ status = "waiting_ready" => \A s \in Step \ {"wait_ready"} : ops[s] = "success"
  /\ status = "succeeded" => \A s \in Step : ops[s] = "success"

OperationsInv ==
  \A r \in ReleaseId : StepsOf(exec[r].pc, op[r]) /\ StatusOps(rel[r].status, op[r])

(* A step changes the operation it runs and no other; an execution that    *)
(* goes on has succeeded in all it has passed.                             *)
LEMMA ExecuteOperations ==
  ASSUME TypeOK, ExecutorInv, OperationsInv, NEW r \in ReleaseId, Execute(r)
  PROVE  /\ \A s \in Step \ {exec[r].pc} : op'[r][s] = op[r][s]
         /\ StepsOf(exec'[r].pc, op'[r])
         /\ StatusOps(rel'[r].status, op'[r])
<1> DEFINE Goal == /\ \A s \in Step \ {exec[r].pc} : op'[r][s] = op[r][s]
                   /\ StepsOf(exec'[r].pc, op'[r])
                   /\ StatusOps(rel'[r].status, op'[r])
<1>a. /\ exec \in [ReleaseId -> ExecRecord] /\ rel \in [ReleaseId -> Row]
      /\ op \in [ReleaseId -> [Step -> OpStatus]]
  BY DEF TypeOK
<1>b. exec[r] \in ExecRecord /\ rel[r] \in Row /\ exec[r].mem \in Row
  BY <1>a DEF ExecRecord
<1>c. Consistent(rel[r], exec[r]) /\ StepsOf(exec[r].pc, op[r]) /\ StatusOps(rel[r].status, op[r])
  BY Zenon DEF ExecutorInv, OperationsInv
<1>d. /\ exec[r].pc \in {"verify_image", "preflight", "to_applying"} => rel[r].status = "validating"
      /\ exec[r].pc \in {"apply_resources", "sync_endpoints", "to_waiting_ready"} => rel[r].status = "applying"
      /\ exec[r].pc \in {"wait_ready", "to_succeeded"} => rel[r].status = "waiting_ready"
  BY <1>c DEF Consistent
<1>e. \A row \in Row, s \in Status : Advanced(row, s).status = s
  BY DEF Advanced, Row
<1>f. \A ops : StepsOf("failing", ops) /\ StepsOf("done", ops) /\ StepsOf("verify_image", ops)
  BY DEF StepsOf, Passed
<1>g. ASSUME NEW ops, \A s \in Step \ {exec[r].pc} : ops[s] = op[r][s]
      PROVE  /\ StepsOf(exec[r].pc, ops)
             /\ exec[r].pc \in Step => StatusOps(rel[r].status, ops)
  <2>1. Passed(exec[r].pc) \subseteq Step /\ (exec[r].pc \in Step => exec[r].pc \notin Passed(exec[r].pc))
    BY Zenon DEF Passed, Step
  <2>2. StepsOf(exec[r].pc, ops)
    BY Zenon, <1>c, <1>g, <2>1 DEF StepsOf, Step
  <2>3. ASSUME exec[r].pc \in Step PROVE StatusOps(rel[r].status, ops)
    BY Zenon, <1>c, <1>d, <1>g, <2>3 DEF StatusOps, Step
  <2> QED
    BY <2>2, <2>3
<1>1. CASE StartExecution(r)
  <2>1. op' = op /\ exec[r].pc = "queued" /\ rel[r].status = "draft"
    BY <1>1, <1>c DEF StartExecution, Consistent
  <2>2. exec'[r].pc \in {"verify_image", "failing", "done"}
    BY ZenonT(40), <1>1, <1>a, <1>b DEF StartExecution, Finish, ExecRecord
  <2>3. rel'[r].status \in {"draft", "validating"}
    <3>1. rel'[r] = rel[r] \/ rel'[r] = Advanced(rel[r], "validating")
      BY <1>1, <1>a DEF StartExecution
    <3> QED
      BY <1>b, <1>e, <2>1, <3>1 DEF Status, InProgress
  <2>4. StatusOps(rel'[r].status, op'[r])
    BY <2>3 DEF StatusOps
  <2> QED
    BY <1>f, <2>1, <2>2, <2>4
<1>2. CASE BeginStep(r)
  <2>1. exec[r].pc \in Step /\ rel' = rel
    BY <1>2 DEF BeginStep
  <2>2. op' = op \/ op' = [op EXCEPT ![r] = [@ EXCEPT ![exec[r].pc] = "running"]]
    BY <1>2 DEF BeginStep
  <2>3. op'[r] = op[r] \/ op'[r] = [op[r] EXCEPT ![exec[r].pc] = "running"]
    BY <1>a, <2>2
  <2>4. \A s \in Step \ {exec[r].pc} : op'[r][s] = op[r][s]
    BY Zenon, <1>a, <2>3
  <2>5. \/ exec'[r] = [exec[r] EXCEPT !.phase = "run"]
        \/ exec'[r] = [exec[r] EXCEPT !.pc = "failing"]
    BY <1>2, <1>a DEF BeginStep
  <2>6. exec'[r].pc = exec[r].pc \/ exec'[r].pc = "failing"
    BY <1>b, <2>5 DEF ExecRecord
  <2> QED
    BY Zenon, <1>f, <1>g, <2>1, <2>4, <2>6
<1>3. ASSUME NEW result \in {"success", "failed"}, StepDone(r, result), exec[r].pc \in Step, UNCHANGED rel
      PROVE  Goal
  <2>1. \A s \in Step \ {exec[r].pc} : op'[r][s] = op[r][s]
    BY Zenon, <1>3, StepDoneEffect
  <2>2. StatusOps(rel'[r].status, op'[r]) /\ StepsOf(exec[r].pc, op'[r])
    BY <1>3, <1>g, <2>1
  <2>3. CASE exec'[r].pc = After[exec[r].pc] /\ op'[r][exec[r].pc] = "success"
    <3>1. Passed(After[exec[r].pc]) \subseteq Passed(exec[r].pc) \cup {exec[r].pc}
      BY Zenon, <1>3 DEF Passed, After, Step
    <3> QED
      BY Zenon, <2>1, <2>2, <2>3, <3>1 DEF StepsOf
  <2>4. CASE exec'[r].pc = "failing"
    BY Zenon, <1>f, <2>1, <2>2, <2>4
  <2> QED
    BY Zenon, <1>3, <2>3, <2>4, StepDoneEffect
<1>4. CASE RunCheck(r)
  BY Zenon, <1>3, <1>4 DEF RunCheck, Step
<1>5. CASE Apply(r)
  <2>1. CASE StepDone(r, "success") \/ StepDone(r, "failed")
    BY <1>3, <1>5, <2>1 DEF Apply, Step
  <2>2. ASSUME NEW x \in Resource, exec' = [exec EXCEPT ![r] = [@ EXCEPT !.res = x]], UNCHANGED op
        PROVE  Goal
    <3>1. exec'[r] = [exec[r] EXCEPT !.res = x]
      BY <1>a, <2>2
    <3>2. exec'[r].pc = exec[r].pc
      BY <1>b, <3>1 DEF ExecRecord
    <3> QED
      BY <1>5, <1>c, <2>2, <3>2 DEF Apply
  <2>3. exec[r].res \in Resource
    BY <1>b DEF ExecRecord
  <2> QED
    BY Zenon, <1>5, <2>1, <2>2, <2>3 DEF Apply, Resource
<1>6. CASE WaitReady(r)
  BY <1>3, <1>6 DEF WaitReady, Step
<1>7. ASSUME NEW row \in Row, NEW s \in Status, NEW pc \in ExecPc, Transition(r, row, s, pc),
             UNCHANGED op, StepsOf(pc, op[r]), StatusOps(s, op[r])
      PROVE  Goal
  BY <1>7, <1>c, <1>e, <1>f, TransitionEffect
<1>8. CASE RunTransition(r)
  <2>1. /\ {"applying", "waiting_ready", "succeeded"} \subseteq Status
        /\ {"apply_resources", "wait_ready", "done"} \subseteq ExecPc
    BY DEF Status, InProgress, Terminal, ExecPc, Step
  <2>2. UNCHANGED op
    BY Zenon, <1>8 DEF RunTransition
  <2>3. CASE exec[r].pc = "to_applying" /\ Transition(r, exec[r].mem, "applying", "apply_resources")
    <3>1. StepsOf("apply_resources", op[r]) /\ StatusOps("applying", op[r])
      BY Zenon, <1>c, <2>3 DEF StepsOf, StatusOps, Passed
    <3> QED
      BY <1>7, <1>b, <2>1, <2>2, <2>3, <3>1
  <2>4. CASE exec[r].pc = "to_waiting_ready" /\ Transition(r, exec[r].mem, "waiting_ready", "wait_ready")
    <3>1. StepsOf("wait_ready", op[r]) /\ StatusOps("waiting_ready", op[r])
      BY Zenon, <1>c, <2>4 DEF StepsOf, StatusOps, Passed
    <3> QED
      BY <1>7, <1>b, <2>1, <2>2, <2>4, <3>1
  <2>5. CASE exec[r].pc = "to_succeeded" /\ Transition(r, exec[r].mem, "succeeded", "done")
    <3>1. StatusOps("succeeded", op[r])
      BY Zenon, <1>c, <2>5 DEF StepsOf, StatusOps, Passed
    <3> QED
      BY <1>7, <1>b, <1>f, <2>1, <2>2, <2>5, <3>1
  <2> QED
    BY <1>8, <2>3, <2>4, <2>5 DEF RunTransition
<1>9. CASE FailRelease(r)
  <2>1. Transition(r, rel[r], "failed", "done") /\ UNCHANGED op
    BY <1>9 DEF FailRelease
  <2>2. "failed" \in Status /\ "done" \in ExecPc
    BY DEF Status, Terminal, ExecPc
  <2>3. StatusOps("failed", op[r])
    BY Zenon DEF StatusOps
  <2> QED
    BY <1>7, <1>b, <1>f, <2>1, <2>2, <2>3
<1> QED
  BY <1>1, <1>2, <1>4, <1>5, <1>6, <1>8, <1>9 DEF Execute

(* The cluster changes only when an executor at "apply_resources" writes   *)
(* an object.                                                              *)
LEMMA ExecuteCluster ==
  ASSUME NEW r \in ReleaseId, Execute(r)
  PROVE  \/ UNCHANGED cluster
         \/ exec[r].pc = "apply_resources" /\ cluster' = [cluster EXCEPT ![exec[r].res] = r]
  BY Zenon DEF Execute, StartExecution, BeginStep, RunCheck, Apply, WaitReady, RunTransition, FailRelease

(* Whatever is not a step of an executor leaves operations and cluster.    *)
LEMMA OtherSteps ==
  ASSUME [Next]_vars, \A r \in ReleaseId : ~Execute(r)
  PROVE  UNCHANGED <<op, cluster>>
  BY Zenon DEF Next, Begin, ListReleases, InsertRelease, SaveAttribution, Launch, WorkloadReady,
         WorkloadUnready, Crash, vars

(* Before any release exists every status is justified. *)
LEMMA OperationsInit == Init => OperationsInv
<1> SUFFICES ASSUME Init, NEW r \in ReleaseId
             PROVE  StepsOf(exec[r].pc, op[r]) /\ StatusOps(rel[r].status, op[r])
  BY Zenon DEF OperationsInv
<1>1. exec[r].pc = "none" /\ rel[r].status = "absent"
  BY DEF Init, IdleExec, NoRow
<1> QED
  BY <1>1 DEF StepsOf, Passed, StatusOps

(* Every step keeps the operation rows in agreement with the statuses. *)
LEMMA OperationsStep ==
  ASSUME TypeOK, TypeOK', ControlInv, OperationsInv, [Next]_vars
  PROVE  OperationsInv'
<1>a. \A ops : StepsOf("none", ops) /\ StepsOf("queued", ops) /\ StepsOf("done", ops)
  BY DEF StepsOf, Passed
<1>b. \A ops : StatusOps("draft", ops)
  BY DEF StatusOps
<1>c. rel \in [ReleaseId -> Row] /\ exec \in [ReleaseId -> ExecRecord] /\ req \in [Request -> RequestRecord]
  BY Zenon DEF TypeOK
<1>1. ASSUME NEW r \in ReleaseId, Execute(r) PROVE OperationsInv'
  <2>1. \A x \in ReleaseId \ {r} : exec'[x] = exec[x] /\ rel'[x] = rel[x] /\ op'[x] = op[x]
    BY Zenon, <1>1, ExecuteEffect DEF ControlInv
  <2>2. StepsOf(exec'[r].pc, op'[r]) /\ StatusOps(rel'[r].status, op'[r])
    BY Zenon, <1>1, ExecuteOperations DEF ControlInv
  <2> QED
    BY Zenon, <2>1, <2>2 DEF OperationsInv
<1>2. ASSUME NEW q \in Request, InsertRelease(q), UNCHANGED op PROVE OperationsInv'
  <2>1. exec' = exec
    BY Zenon, <1>2, InsertReleaseEffect
  <2>2. ASSUME NEW r \in ReleaseId, rel' = [rel EXCEPT ![r] = DraftRow(q)] PROVE OperationsInv'
    <3>1. rel'[r].status = "draft" /\ \A x \in ReleaseId \ {r} : rel'[x] = rel[x]
      BY Zenon, <1>c, <2>2 DEF DraftRow, NoRow
    <3> QED
      BY <1>2, <1>b, <2>1, <3>1 DEF OperationsInv
  <2>3. CASE rel' = rel
    BY <1>2, <2>1, <2>3 DEF OperationsInv
  <2> QED
    BY Zenon, <1>2, <2>2, <2>3, InsertReleaseEffect
<1>3. ASSUME NEW q \in Request, SaveAttribution(q), UNCHANGED op PROVE OperationsInv'
  <2>1. exec' = exec
    BY Zenon, <1>3, SaveAttributionEffect
  <2>2. CASE rel' = rel
    BY Zenon, <1>3, <2>1, <2>2 DEF OperationsInv
  <2>3. CASE rel' = [rel EXCEPT ![req[q].rid] = [DraftRow(q) EXCEPT !.template = req[q].template,
                                                                    !.source = req[q].source]]
    <3>1. \A x \in ReleaseId : rel'[x].status = rel[x].status
      BY Zenon, <1>3, <2>3, SaveRow
    <3> QED
      BY <1>3, <2>1, <3>1 DEF OperationsInv
  <2> QED
    BY Zenon, <1>3, <2>2, <2>3, SaveAttributionEffect
<1>4. ASSUME NEW q \in Request, Launch(q), UNCHANGED op PROVE OperationsInv'
  <2>1. rel' = rel
    BY Zenon, <1>4, LaunchEffect
  <2>2. CASE exec' = exec
    BY Zenon, <1>4, <2>1, <2>2 DEF OperationsInv
  <2>3. CASE exec' = [exec EXCEPT ![req[q].rid] = [IdleExec EXCEPT !.pc = "queued"]]
    <3>1. \A x \in ReleaseId : exec'[x].pc = "queued" \/ exec'[x] = exec[x]
      BY Zenon, <1>c, <2>3 DEF IdleExec
    <3> QED
      BY <1>4, <1>a, <2>1, <3>1 DEF OperationsInv
  <2> QED
    BY <1>4, <2>2, <2>3, LaunchEffect
<1>5. CASE Crash
  <2>1. rel' = rel /\ op' = op /\ \A r \in ReleaseId : exec'[r].pc \in {"none", "done"}
    BY Zenon, <1>5, CrashEffect
  <2> QED
    BY Zenon, <1>a, <2>1 DEF OperationsInv
<1>6. ASSUME UNCHANGED <<rel, exec, op>> PROVE OperationsInv'
  BY <1>6 DEF OperationsInv
<1>7. \/ \E q \in Request : InsertRelease(q) \/ SaveAttribution(q) \/ Launch(q)
      \/ \E r \in ReleaseId : Execute(r)
      \/ Crash
      \/ UNCHANGED <<rel, exec, op>>
  BY Zenon DEF Next, Begin, ListReleases, WorkloadReady, WorkloadUnready, vars
<1>8. \A q \in Request : InsertRelease(q) \/ SaveAttribution(q) \/ Launch(q) => UNCHANGED op
  BY Zenon DEF InsertRelease, SaveAttribution, Launch
<1> QED
  BY <1>1, <1>2, <1>3, <1>4, <1>5, <1>6, <1>7, <1>8

(* The step of AppliedAfterChecks. *)
LEMMA AppliedStep ==
  ASSUME TypeOK, TypeOK', ControlInv, OperationsInv, AppliedAfterChecks, [Next]_vars
  PROVE  AppliedAfterChecks'
<1>a. /\ rel \in [ReleaseId -> Row] /\ cluster \in [Resource -> ReleaseId \cup {None}]
      /\ exec \in [ReleaseId -> ExecRecord]
  BY DEF TypeOK
<1> DEFINE Early == {"absent", "draft", "validating"}
           Checked(r) == op[r]["verify_image"] = "success" /\ op[r]["preflight"] = "success"
<1>1. ASSUME NEW r \in ReleaseId, Checked(r), rel[r].status \notin Early
      PROVE  Checked(r)' /\ rel'[r].status \notin Early
  <2>1. rel'[r].status \notin Early
    <3>1. CASE UNCHANGED rel
      BY Zenon, <1>1, <3>1
    <3>2. ASSUME NEW q \in Request, NEW x \in ReleaseId \ Existing, rel' = [rel EXCEPT ![x] = DraftRow(q)]
          PROVE  rel'[r].status \notin Early
      <4>1. x # r
        BY Zenon, <1>1 DEF Existing
      <4> QED
        BY Zenon, <1>a, <1>1, <3>2, <4>1
    <3>3. ASSUME NEW q \in Request, SaveAttribution(q),
                 rel' = [rel EXCEPT ![req[q].rid] = [DraftRow(q) EXCEPT !.template = req[q].template,
                                                                        !.source = req[q].source]]
          PROVE  rel'[r].status \notin Early
      <4>1. \A x \in ReleaseId : rel'[x].status = rel[x].status
        BY Zenon, <3>3, SaveRow
      <4> QED
        BY <1>1, <4>1
    <3>4. ASSUME NEW x \in ReleaseId, Progress(rel[x], rel'[x]), \A y \in ReleaseId \ {x} : rel'[y] = rel[y]
          PROVE  rel'[r].status \notin Early
      <4>1. CASE x # r
        BY <1>1, <3>4, <4>1
      <4>2. CASE x = r
        <5>1. rel[r] \in Row /\ Progress(rel[r], rel'[r])
          BY Zenon, <1>a, <3>4, <4>2
        <5> QED
          BY <1>1, <5>1 DEF Progress, Advanced, Row
      <4> QED
        BY <4>1, <4>2
    <3> QED
      BY Zenon, <3>1, <3>2, <3>3, <3>4, RowStep
  <2>2. Checked(r)'
    <3>1. CASE UNCHANGED op
      BY Zenon, <1>1, <3>1
    <3>2. ASSUME NEW x \in ReleaseId, Execute(x) PROVE Checked(r)'
      <4>1. CASE x # r
        <5>1. op'[r] = op[r]
          BY <3>2, <4>1, ExecuteEffect DEF ControlInv
        <5> QED
          BY Zenon, <1>1, <5>1
      <4>2. CASE x = r
        <5>1. exec[r].pc \notin {"verify_image", "preflight"}
          BY Zenon, <1>1 DEF ControlInv, ExecutorInv, Consistent
        <5>2. \A s \in Step \ {exec[r].pc} : op'[r][s] = op[r][s]
          BY Zenon, <3>2, <4>2, ExecuteOperations DEF ControlInv
        <5> QED
          BY Zenon, <1>1, <5>1, <5>2 DEF Step
      <4> QED
        BY Zenon, <4>1, <4>2
    <3> QED
      BY Zenon, <3>1, <3>2, OtherSteps
  <2> QED
    BY <2>1, <2>2
<1>2. ASSUME NEW r \in ReleaseId, Execute(r), exec[r].pc = "apply_resources"
      PROVE  Checked(r) /\ rel[r].status \notin Early
  <2>1. rel[r].status = "applying"
    BY Zenon, <1>2 DEF ControlInv, ExecutorInv, Consistent
  <2>2. Checked(r)
    BY Zenon, <2>1 DEF OperationsInv, StatusOps
  <2> QED
    BY Zenon, <2>1, <2>2
<1>3. \A x \in Resource : cluster[x] # None =>
        cluster[x] \in ReleaseId /\ Checked(cluster[x]) /\ rel[cluster[x]].status \notin Early
  BY Zenon, <1>a DEF AppliedAfterChecks
<1>4. ASSUME NEW x \in Resource, cluster'[x] # None
      PROVE  /\ cluster'[x] \in ReleaseId
             /\ Checked(cluster'[x]) /\ rel[cluster'[x]].status \notin Early
  <2>1. CASE UNCHANGED cluster
    BY Zenon, <1>3, <1>4, <2>1
  <2>2. ASSUME NEW r \in ReleaseId, Execute(r), exec[r].pc = "apply_resources",
               cluster' = [cluster EXCEPT ![exec[r].res] = r]
        PROVE  /\ cluster'[x] \in ReleaseId
               /\ Checked(cluster'[x]) /\ rel[cluster'[x]].status \notin Early
    <3>1. cluster'[x] = r \/ cluster'[x] = cluster[x]
      BY Zenon, <1>a, <2>2
    <3>2. Checked(r) /\ rel[r].status \notin Early
      BY Zenon, <1>2, <2>2
    <3>3. CASE cluster'[x] = r
      BY Zenon, <3>2, <3>3
    <3>4. CASE cluster'[x] = cluster[x]
      BY Zenon, <1>3, <1>4, <3>4
    <3> QED
      BY <3>1, <3>3, <3>4
  <2> QED
    BY Zenon, <2>1, <2>2, OtherSteps, ExecuteCluster
<1>5. \A x \in Resource : cluster'[x] # None =>
        /\ op'[cluster'[x]]["verify_image"] = "success" /\ op'[cluster'[x]]["preflight"] = "success"
        /\ rel'[cluster'[x]].status \notin Early
  BY <1>1, <1>4
<1> QED
  BY Zenon, <1>5 DEF AppliedAfterChecks

(* OperationsMatchStatus: no release is stored as succeeded (or as         *)
(* applying, or as waiting) with a step of runStep that is missing, still  *)
(* running or failed, for any number of crashes and database errors.       *)
THEOREM Operations == Spec => []OperationsMatchStatus
<1>1. Init => OperationsInv
  BY OperationsInit
<1>2. TypeOK /\ TypeOK' /\ ControlInv /\ OperationsInv /\ [Next]_vars => OperationsInv'
  BY OperationsStep
<1>3. OperationsInv => OperationsMatchStatus
  BY Zenon DEF OperationsInv, OperationsMatchStatus, StatusOps
<1> QED
  BY <1>1, <1>2, <1>3, ControlCorrect, PTL DEF Spec

(* AppliedAfterChecks: nothing of a release is in the cluster unless its   *)
(* image was verified and its preflight passed.                            *)
THEOREM Applied == Spec => []AppliedAfterChecks
<1>1. Init => OperationsInv /\ AppliedAfterChecks
  BY OperationsInit DEF Init, AppliedAfterChecks
<1>2. /\ TypeOK /\ TypeOK' /\ ControlInv /\ OperationsInv /\ AppliedAfterChecks /\ [Next]_vars
      => OperationsInv' /\ AppliedAfterChecks'
  BY Zenon, OperationsStep, AppliedStep
<1> QED
  BY <1>1, <1>2, ControlCorrect, PTL DEF Spec

-----------------------------------------------------------------------------
(* Derivation.                                                             *)

(* A restart or rollback deploys what the release it is based on deployed, *)
(* and gets a larger number.                                               *)
Derived(q) ==
  LET b == req[q].base
      r == req[q].rid
  IN  /\ req[q].source # None => req[q].kind = "rollback" /\ req[q].source = b
      /\ req[q].kind \in {"restart", "rollback"} =>
           /\ b \in Succeeded
           /\ req[q].image = rel[b].image
           /\ r # None => rel[r].image = rel[b].image /\ rel[b].seq < rel[r].seq
           /\ req[q].pc = "insert" => rel[b].seq < req[q].seq

SourceOf(r) ==
  rel[r].source # None => /\ rel[r].source \in Succeeded
                          /\ rel[rel[r].source].seq < rel[r].seq
                          /\ rel[rel[r].source].image = rel[r].image

DerivationInv ==
  /\ \A q \in Request : Derived(q)
  /\ \A r \in Existing : SourceOf(r)

(* But for three steps of its own, a request keeps what it is about. *)
LEMMA RequestFrame ==
  ASSUME TypeOK, ControlInv, [Next]_vars, NEW q \in Request
  PROVE  \/ Begin(q) \/ ListReleases(q) \/ InsertRelease(q)
         \/ /\ req'[q].kind = req[q].kind /\ req'[q].base = req[q].base /\ req'[q].source = req[q].source
            /\ req'[q].seq = req[q].seq /\ req'[q].rid = req[q].rid /\ req'[q].image = req[q].image
            /\ req'[q].pc = "insert" => req[q].pc = "insert"
<1> DEFINE Same == /\ req'[q].kind = req[q].kind /\ req'[q].base = req[q].base
                   /\ req'[q].source = req[q].source
                   /\ req'[q].seq = req[q].seq /\ req'[q].rid = req[q].rid /\ req'[q].image = req[q].image
                   /\ req'[q].pc = "insert" => req[q].pc = "insert"
<1>1. ASSUME NEW p \in Request, Begin(p) PROVE Begin(q) \/ req'[q] = req[q]
  BY Zenon, <1>1, BeginEffect
<1>2. ASSUME NEW p \in Request, ListReleases(p) PROVE ListReleases(q) \/ req'[q] = req[q]
  BY Zenon, <1>2, ListReleasesEffect
<1>3. ASSUME NEW p \in Request, InsertRelease(p) PROVE InsertRelease(q) \/ req'[q] = req[q]
  BY Zenon, <1>3, InsertReleaseEffect
<1>4. ASSUME NEW p \in Request, SaveAttribution(p) PROVE Same
  <2>1. CASE p = q
    BY Zenon, <1>4, <2>1, SaveAttributionEffect
  <2>2. CASE p # q
    BY Zenon, <1>4, <2>2, SaveAttributionEffect
  <2> QED
    BY <2>1, <2>2
<1>5. ASSUME NEW p \in Request, Launch(p) PROVE Same
  <2>1. CASE p = q
    BY <1>5, <2>1, LaunchEffect
  <2>2. CASE p # q
    BY Zenon, <1>5, <2>2, LaunchEffect
  <2> QED
    BY <2>1, <2>2
<1>6. ASSUME NEW r \in ReleaseId, Execute(r) PROVE req'[q] = req[q]
  BY Zenon, <1>6, ExecuteEffect DEF ControlInv
<1>7. Crash => Same
  BY Zenon, CrashEffect
<1>8. WorkloadReady \/ WorkloadUnready \/ UNCHANGED vars => req'[q] = req[q]
  BY DEF WorkloadReady, WorkloadUnready, vars
<1> QED
  BY Zenon, <1>1, <1>2, <1>3, <1>4, <1>5, <1>6, <1>7, <1>8 DEF Next

(* Every step keeps what requests and rows were derived from a success. *)
LEMMA DerivationStep ==
  ASSUME TypeOK, TypeOK', ControlInv, DerivationInv, [Next]_vars
  PROVE  DerivationInv'
<1>a. /\ rel \in [ReleaseId -> Row] /\ rel' \in [ReleaseId -> Row]
      /\ req \in [Request -> RequestRecord]
  BY Zenon DEF TypeOK
<1>b. \A r \in ReleaseId : rel[r].seq \in Nat
  BY Zenon, <1>a DEF Row
<1>1. /\ Existing \subseteq Existing' /\ Succeeded \subseteq Succeeded'
      /\ \A r \in Existing : rel'[r].seq = rel[r].seq /\ rel'[r].image = rel[r].image
  BY Zenon, RowsKept DEF Kept
<1>c. Succeeded \subseteq Existing /\ Existing \subseteq ReleaseId
  BY Zenon DEF Succeeded, Existing
<1>2. ASSUME NEW q \in Request PROVE Derived(q)'
  <2>a. Derived(q) /\ Owns(q)
    BY Zenon DEF DerivationInv, ControlInv, OwnershipInv
  <2>1. CASE Begin(q)
    <3>1. req'[q].pc = "list" /\ req'[q].rid = None
      BY Zenon, <2>1, BeginEffect
    <3>2. \/ req'[q].kind \in {"create", "retry"} /\ req'[q].source = None
          \/ /\ req'[q].kind \in {"restart", "rollback"}
             /\ req'[q].base \in Succeeded
             /\ req'[q].image = rel[req'[q].base].image
             /\ req'[q].source # None => req'[q].kind = "rollback" /\ req'[q].source = req'[q].base
      BY Zenon, <2>1, BeginEffect
    <3>3. req'[q].base \in Succeeded =>
            req'[q].base \in Succeeded' /\ rel'[req'[q].base].image = rel[req'[q].base].image
      BY Zenon, <1>1, <1>c
    <3> QED
      BY Zenon, <3>1, <3>2, <3>3 DEF Derived
  <2>2. CASE ListReleases(q)
    <3>1. /\ req'[q].kind = req[q].kind /\ req'[q].base = req[q].base /\ req'[q].source = req[q].source
          /\ req'[q].rid = req[q].rid /\ req'[q].image = req[q].image /\ req[q].pc = "list"
          /\ rel' = rel
      BY Zenon, <2>2, ListReleasesEffect
    <3>2. req'[q].rid = None
      BY Zenon, <2>a, <3>1 DEF Owns
    <3>3. \A x \in Existing : rel[x].seq < req'[q].seq
      BY <2>2, <1>b, <1>c, ListReleasesEffect DEF IsLatest
    <3>4. Succeeded' = Succeeded
      BY Zenon, <3>1 DEF Succeeded, Existing
    <3> QED
      BY Zenon, <1>c, <2>a, <3>1, <3>2, <3>3, <3>4 DEF Derived
  <2>3. CASE InsertRelease(q)
    <3>1. /\ req'[q].kind = req[q].kind /\ req'[q].base = req[q].base /\ req'[q].source = req[q].source
          /\ req'[q].seq = req[q].seq /\ req'[q].image = req[q].image /\ req[q].pc = "insert"
      BY Zenon, <2>3, InsertReleaseEffect
    <3>2. req[q].rid = None
      BY Zenon, <2>a, <3>1 DEF Owns
    <3>3. req[q].base \in Succeeded =>
            /\ req[q].base \in Succeeded'
            /\ rel'[req[q].base].image = rel[req[q].base].image
            /\ rel'[req[q].base].seq = rel[req[q].base].seq
      BY Zenon, <1>1, <1>c
    <3>4. req'[q].pc \in {"save", "done"} /\
            (req'[q].rid = None \/ (rel'[req'[q].rid].image = req[q].image /\ rel'[req'[q].rid].seq = req[q].seq))
      <4>1. CASE req'[q].pc = "done" /\ req'[q].rid = req[q].rid
        BY Zenon, <3>2, <4>1
      <4>2. ASSUME NEW r \in ReleaseId, rel' = [rel EXCEPT ![r] = DraftRow(q)], req'[q].rid = r
            PROVE  rel'[req'[q].rid].image = req[q].image /\ rel'[req'[q].rid].seq = req[q].seq
        <5>1. rel'[r] = DraftRow(q)
          BY <1>a, <4>2
        <5>2. DraftRow(q).image = req[q].image /\ DraftRow(q).seq = req[q].seq
          BY Zenon DEF DraftRow, NoRow
        <5> QED
          BY Zenon, <4>2, <5>1, <5>2
      <4> QED
        BY Zenon, <2>3, <4>1, <4>2, InsertReleaseEffect
    <3> QED
      BY Zenon, <2>a, <3>1, <3>3, <3>4 DEF Derived
  <2>4. CASE /\ req'[q].kind = req[q].kind /\ req'[q].base = req[q].base /\ req'[q].source = req[q].source
             /\ req'[q].seq = req[q].seq /\ req'[q].rid = req[q].rid /\ req'[q].image = req[q].image
             /\ req'[q].pc = "insert" => req[q].pc = "insert"
    <3>1. req[q].base \in Succeeded =>
            /\ req[q].base \in Succeeded'
            /\ rel'[req[q].base].image = rel[req[q].base].image
            /\ rel'[req[q].base].seq = rel[req[q].base].seq
      BY Zenon, <1>1, <1>c
    <3>2. req[q].rid # None =>
            rel'[req[q].rid].image = rel[req[q].rid].image /\ rel'[req[q].rid].seq = rel[req[q].rid].seq
      BY Zenon, <1>1, <2>a DEF Owns
    <3> QED
      BY Zenon, <2>4, <2>a, <3>1, <3>2 DEF Derived
  <2> QED
    BY <2>1, <2>2, <2>3, <2>4, RequestFrame
<1>3. ASSUME NEW r \in Existing, rel'[r].source = rel[r].source PROVE SourceOf(r)'
  <2>1. SourceOf(r)
    BY Zenon DEF DerivationInv
  <2>2. rel[r].source \in Succeeded =>
          /\ rel[r].source \in Succeeded'
          /\ rel'[rel[r].source].image = rel[rel[r].source].image
          /\ rel'[rel[r].source].seq = rel[rel[r].source].seq
    BY <1>1, <1>c
  <2> QED
    BY <1>1, <1>3, <2>1, <2>2 DEF SourceOf
<1>4. ASSUME NEW r \in Existing' PROVE SourceOf(r)'
  <2>1. CASE UNCHANGED rel
    BY <1>3, <2>1 DEF Existing
  <2>2. ASSUME NEW q \in Request, NEW x \in ReleaseId \ Existing, rel' = [rel EXCEPT ![x] = DraftRow(q)]
        PROVE  SourceOf(r)'
    <3>1. r \in ReleaseId /\ rel'[x] = DraftRow(q) /\ \A y \in ReleaseId \ {x} : rel'[y] = rel[y]
      BY <1>a, <2>2 DEF Existing
    <3>2. DraftRow(q).source = None
      BY Zenon DEF DraftRow, NoRow
    <3>3. CASE r = x
      BY Zenon, <3>1, <3>2, <3>3 DEF SourceOf
    <3>4. CASE r # x
      BY Zenon, <1>3, <3>1, <3>4 DEF Existing
    <3> QED
      BY Zenon, <3>3, <3>4
  <2>3. ASSUME NEW q \in Request, SaveAttribution(q),
               rel' = [rel EXCEPT ![req[q].rid] = [DraftRow(q) EXCEPT !.template = req[q].template,
                                                                      !.source = req[q].source]]
        PROVE  SourceOf(r)'
    <3> DEFINE x == req[q].rid
    <3>1. /\ x \in ReleaseId /\ rel'[x].source = req[q].source
          /\ rel[x].status = "draft" /\ \A y \in ReleaseId \ {x} : rel'[y] = rel[y]
          /\ rel'[x].seq = rel[x].seq /\ rel'[x].image = rel[x].image
      BY Zenon, <2>3, SaveRow
    <3>2. x # None
      BY Zenon, <3>1, ConstantsAssumption
    <3>3. CASE r # x
      <4>1. r \in ReleaseId
        BY DEF Existing
      <4> QED
        BY Zenon, <1>3, <3>1, <3>3, <4>1 DEF Existing
    <3>4. ASSUME r = x, req[q].source # None PROVE SourceOf(r)'
      <4>1. Derived(q)
        BY Zenon DEF DerivationInv
      <4>2. /\ req[q].source \in Succeeded
            /\ rel[x].image = rel[req[q].source].image /\ rel[req[q].source].seq < rel[x].seq
        BY Zenon, <3>2, <3>4, <4>1 DEF Derived
      <4>3. /\ req[q].source \in Succeeded'
            /\ rel'[req[q].source].image = rel[req[q].source].image
            /\ rel'[req[q].source].seq = rel[req[q].source].seq
        BY Zenon, <1>1, <1>c, <4>2
      <4> QED
        BY <3>1, <3>4, <4>2, <4>3 DEF SourceOf
    <3>5. CASE r = x /\ req[q].source = None
      BY Zenon, <3>1, <3>5 DEF SourceOf
    <3> QED
      BY <3>3, <3>4, <3>5
  <2>4. ASSUME NEW x \in ReleaseId, Progress(rel[x], rel'[x]), \A y \in ReleaseId \ {x} : rel'[y] = rel[y]
        PROVE  SourceOf(r)'
    <3>1. rel'[x].source = rel[x].source /\ (rel'[x].status = "absent" <=> rel[x].status = "absent")
      BY <1>a, <2>4, ProgressKeeps
    <3> QED
      BY Zenon, <1>3, <2>4, <3>1 DEF Existing
  <2> QED
    BY Zenon, <2>1, <2>2, <2>3, <2>4, RowStep
<1> QED
  BY Zenon, <1>2, <1>4 DEF DerivationInv

(* DerivedFromSuccess: a rollback or restart deploys what an earlier       *)
(* successful release deployed, and a stored source names that release.    *)
THEOREM Derivation == Spec => []DerivedFromSuccess
<1>1. Init => DerivationInv
  BY DEF Init, DerivationInv, Derived, SourceOf, IdleRequest, Existing, NoRow
<1>2. TypeOK /\ TypeOK' /\ ControlInv /\ DerivationInv /\ [Next]_vars => DerivationInv'
  BY Zenon, DerivationStep
<1>3. DerivationInv => DerivedFromSuccess
  BY Zenon DEF DerivationInv, Derived, SourceOf, DerivedFromSuccess
<1> QED
  BY <1>1, <1>2, <1>3, ControlCorrect, PTL DEF Spec

-----------------------------------------------------------------------------
(* A release that runs alone.                                              *)

(* The executor of r has written its workload and has not finished. *)
Holding(r) ==
  \/ exec[r].pc = "apply_resources" /\ exec[r].res = "service"
  \/ exec[r].pc \in {"sync_endpoints", "to_waiting_ready", "wait_ready", "to_succeeded"}

SoloOK(r) ==
  /\ rel[r].status = "succeeded" /\ r \in solo => r \in readied
  /\ exec[r].pc \in {"queued", "verify_image", "preflight", "to_applying"} => exec[r].res = "config"
  /\ r \in solo => exec[r].pc \notin {"none", "queued"}
  /\ r \in solo /\ r \in Active => \A x \in Active \ {r} : exec[x].pc \in {"queued", "failing"}
  /\ r \in solo /\ Holding(r) => cluster["workload"] = r
  /\ r \in solo /\ exec[r].pc = "to_succeeded" => r \in readied

(* While an executor that runs alone holds the workload, nobody replaces   *)
(* it, and the readiness that is reported is that of the last workload.    *)
SoloInv ==
  /\ ready => cluster["workload"] \in readied
  /\ \A r \in ReleaseId : SoloOK(r)

(* A step of r keeps SoloOK of the others, if it cannot disturb them. *)
LEMMA SoloOther ==
  ASSUME SoloInv, NEW r \in ReleaseId, NEW x \in ReleaseId \ {r},
         \A y \in ReleaseId \ {r} : exec'[y] = exec[y],
         rel'[x].status = rel[x].status,
         x \in solo' => x \in solo,
         readied \subseteq readied',
         \/ x \notin solo'
         \/ x \notin Active
         \/ /\ exec'[r].pc \in {"none", "queued", "failing", "done"}
            /\ cluster'["workload"] = cluster["workload"]
  PROVE  SoloOK(x)'
<1>1. SoloOK(x) /\ exec'[x] = exec[x]
  BY Zenon DEF SoloInv
<1>2. x \in Active' <=> x \in Active
  BY Zenon, <1>1 DEF Active
<1>3. Holding(x)' <=> Holding(x)
  BY Zenon, <1>1 DEF Holding
<1>4. Holding(x) \/ exec[x].pc = "to_succeeded" => x \in Active
  BY Zenon DEF Holding, Active
<1>5. ASSUME x \in solo', x \in Active' PROVE \A y \in Active' \ {x} : exec'[y].pc \in {"queued", "failing"}
  <2> TAKE y \in Active' \ {x}
  <2>1. CASE y = r
    BY Zenon, <1>2, <1>5, <2>1 DEF Active
  <2>2. CASE y # r
    <3>1. y \in Active \ {x} /\ exec'[y] = exec[y]
      BY Zenon, <2>2 DEF Active
    <3> QED
      BY Zenon, <1>1, <1>2, <1>5, <3>1 DEF SoloOK
  <2> QED
    BY <2>1, <2>2
<1>6. /\ rel'[x].status = "succeeded" /\ x \in solo' => x \in readied'
      /\ exec'[x].pc \in {"queued", "verify_image", "preflight", "to_applying"} => exec'[x].res = "config"
      /\ x \in solo' => exec'[x].pc \notin {"none", "queued"}
  BY Zenon, <1>1 DEF SoloOK
<1>7. /\ x \in solo' /\ Holding(x)' => cluster'["workload"] = x
      /\ x \in solo' /\ exec'[x].pc = "to_succeeded" => x \in readied'
  BY Zenon, <1>1, <1>3, <1>4 DEF SoloOK
<1> QED
  BY Zenon, <1>5, <1>6, <1>7 DEF SoloOK

(* When an executor does more than fail, no other one runs alone. *)
LEMMA SoloAlone ==
  ASSUME SoloInv, NEW r \in ReleaseId, r \in Active, exec[r].pc \notin {"queued", "failing"}
  PROVE  \A x \in solo \ {r} : x \in ReleaseId => x \notin Active
  BY Zenon DEF SoloInv, SoloOK

(* The start of an execution: it is alone, or nobody who runs is any more. *)
LEMMA SoloStart ==
  ASSUME TypeOK, ExecutorInv, SoloInv, NEW r \in ReleaseId, StartExecution(r)
  PROVE  SoloInv'
<1>a. exec \in [ReleaseId -> ExecRecord] /\ rel \in [ReleaseId -> Row]
  BY DEF TypeOK
<1>1. /\ exec[r].pc = "queued" /\ r \notin solo /\ r \in Active /\ exec[r].res = "config"
      /\ UNCHANGED <<cluster, ready, readied>>
  BY DEF StartExecution, SoloInv, SoloOK, Active
<1>2. /\ \A y \in ReleaseId \ {r} : exec'[y] = exec[y] /\ rel'[y] = rel[y]
      /\ rel'[r].status # "succeeded"
  <2>1. Execute(r) /\ rel[r].status = "draft"
    BY Zenon, <1>1 DEF Execute, ExecutorInv, Consistent
  <2>2. \A y \in ReleaseId \ {r} : exec'[y] = exec[y] /\ rel'[y] = rel[y]
    BY Zenon, <2>1, ExecuteEffect
  <2>3. Progress(rel[r], rel'[r]) /\ rel[r] \in Row
    BY Zenon, <1>a, <2>1, ExecuteEffect
  <2> QED
    BY Zenon, <2>1, <2>2, <2>3 DEF Progress, Advanced, Row, InProgress
<1>3. CASE exec'[r].pc \in {"failing", "done"} /\ solo' = solo
  <2>1. SoloOK(r)'
    BY Zenon, <1>1, <1>3 DEF SoloOK
  <2>2. \A x \in ReleaseId \ {r} : SoloOK(x)'
    BY Zenon, <1>1, <1>2, <1>3, SoloOther
  <2> QED
    BY Zenon, <1>1, <2>1, <2>2 DEF SoloInv
<1>4. CASE exec'[r].pc = "verify_image" /\ exec'[r].res = "config" /\ solo' = SoloAfterStart(r)
  <2>1. \A x \in ReleaseId \ {r} : (x \in solo' => x \in solo) /\ (x \notin solo' \/ x \notin Active)
    BY Zenon, <1>4 DEF SoloAfterStart
  <2>2. \A x \in ReleaseId \ {r} : SoloOK(x)'
    BY Zenon, <1>1, <1>2, <2>1, SoloOther
  <2>3. r \in solo' => Active = {r}
    BY Zenon, <1>1, <1>4 DEF SoloAfterStart
  <2>4. Active' = Active
    BY Zenon, <1>1, <1>2, <1>4 DEF Active
  <2>5. ~Holding(r)'
    BY Zenon, <1>4 DEF Holding
  <2>6. SoloOK(r)'
    BY <1>2, <1>4, <2>3, <2>4, <2>5 DEF SoloOK
  <2> QED
    BY Zenon, <1>1, <2>2, <2>6 DEF SoloInv
<1>5. \/ exec'[r].pc \in {"failing", "done"} /\ solo' = solo
      \/ exec'[r].pc = "verify_image" /\ exec'[r].res = "config" /\ solo' = SoloAfterStart(r)
  <2>1. CASE /\ exec' = [exec EXCEPT ![r] = [@ EXCEPT !.mem = Advanced(rel[r], "validating"),
                                                      !.pc = "verify_image"]]
             /\ solo' = SoloAfterStart(r)
    <3>1. exec'[r] = [exec[r] EXCEPT !.mem = Advanced(rel[r], "validating"), !.pc = "verify_image"]
      BY <1>a, <2>1
    <3>2. exec[r] \in ExecRecord
      BY <1>a
    <3>3. exec'[r].pc = "verify_image" /\ exec'[r].res = exec[r].res
      BY <3>1, <3>2 DEF ExecRecord
    <3> QED
      BY <1>1, <2>1, <3>3
  <2>2. ASSUME NEW p \in {"failing", "done"}, exec' = [exec EXCEPT ![r] = [@ EXCEPT !.pc = p]], solo' = solo
        PROVE  exec'[r].pc \in {"failing", "done"} /\ solo' = solo
    <3>1. exec'[r] = [exec[r] EXCEPT !.pc = p] /\ exec[r] \in ExecRecord
      BY Zenon, <1>a, <2>2
    <3> QED
      BY <2>2, <3>1 DEF ExecRecord
  <2> QED
    BY <2>1, <2>2 DEF StartExecution, Finish
<1> QED
  BY Zenon, <1>3, <1>4, <1>5

(* A step of a running executor that changes no history keeps the facts about
   the executors that run alone. *)
LEMMA SoloRun ==
  ASSUME SoloInv, NEW r \in ReleaseId, r \in Active, exec[r].pc # "queued",
         \A y \in ReleaseId \ {r} : exec'[y] = exec[y] /\ rel'[y] = rel[y],
         UNCHANGED <<solo, readied>>,
         exec[r].pc = "failing" => cluster' = cluster /\ exec'[r].pc = "done",
         ready' => cluster'["workload"] \in readied,
         exec'[r].pc \notin {"none", "queued"},
         exec'[r].pc \in {"verify_image", "preflight", "to_applying"} => exec'[r].res = "config",
         rel'[r].status = "succeeded" /\ r \in solo => r \in readied,
         r \in solo /\ Holding(r)' => cluster'["workload"] = r,
         r \in solo /\ exec'[r].pc = "to_succeeded" => r \in readied
  PROVE  SoloInv'
<1>1. \A x \in ReleaseId \ {r} : SoloOK(x)'
  <2>1. CASE exec[r].pc = "failing"
    BY Zenon, <2>1, SoloOther
  <2>2. CASE exec[r].pc # "failing"
    BY Zenon, <2>2, SoloAlone, SoloOther
  <2> QED
    BY Zenon, <2>1, <2>2
<1>2. ASSUME r \in solo' PROVE \A x \in Active' \ {r} : exec'[x].pc \in {"queued", "failing"}
  <2> TAKE x \in Active' \ {r}
  <2>1. x \in Active /\ exec'[x] = exec[x]
    BY Zenon DEF Active
  <2>2. SoloOK(r)
    BY Zenon DEF SoloInv
  <2> QED
    BY Zenon, <1>2, <2>1, <2>2 DEF SoloOK
<1>3. SoloOK(r)'
  BY Zenon, <1>2 DEF SoloOK
<1> QED
  BY Zenon, <1>1, <1>3 DEF SoloInv

(* Every later step of an executor keeps them. *)
LEMMA SoloExecute ==
  ASSUME TypeOK, ExecutorInv, SoloInv, NEW r \in ReleaseId, Execute(r), ~StartExecution(r)
  PROVE  SoloInv'
<1>a. /\ exec \in [ReleaseId -> ExecRecord] /\ rel \in [ReleaseId -> Row]
      /\ cluster \in [Resource -> ReleaseId \cup {None}]
  BY Zenon DEF TypeOK
<1>b. exec[r] \in ExecRecord /\ rel[r] \in Row /\ exec[r].mem \in Row /\ exec[r].res \in Resource
  BY Zenon, <1>a DEF ExecRecord
<1>c. SoloOK(r) /\ Consistent(rel[r], exec[r])
  BY Zenon DEF SoloInv, ExecutorInv
<1>d. /\ r \in Active
      /\ \A y \in ReleaseId \ {r} : exec'[y] = exec[y] /\ rel'[y] = rel[y]
  BY Zenon, ExecuteEffect DEF Active
<1>e. /\ rel[r].status = "succeeded" /\ r \in solo => r \in readied
      /\ exec[r].pc \in {"queued", "verify_image", "preflight", "to_applying"} => exec[r].res = "config"
      /\ r \in solo /\ Holding(r) => cluster["workload"] = r
      /\ r \in solo /\ exec[r].pc = "to_succeeded" => r \in readied
      /\ ready => cluster["workload"] \in readied
  BY <1>c DEF SoloOK, SoloInv
<1>1. CASE BeginStep(r)
  <2>1. /\ exec[r].pc \in Step /\ UNCHANGED <<rel, cluster, ready, readied, solo>>
        /\ exec[r].pc \notin {"queued", "failing"}
    BY <1>1 DEF BeginStep, Step
  <2>2. \/ exec'[r] = [exec[r] EXCEPT !.phase = "run"]
        \/ exec'[r] = [exec[r] EXCEPT !.pc = "failing"]
    BY <1>1, <1>a DEF BeginStep
  <2>3. (exec'[r].pc = exec[r].pc /\ exec'[r].res = exec[r].res) \/ exec'[r].pc = "failing"
    BY Zenon, <1>b, <2>2 DEF ExecRecord
  <2>4. /\ Holding(r)' => Holding(r)
        /\ exec'[r].pc \notin {"none", "queued", "to_succeeded"}
        /\ exec'[r].pc \in {"verify_image", "preflight", "to_applying"} => exec'[r].res = "config"
    BY Zenon, <1>e, <2>1, <2>3 DEF Holding, Step
  <2> QED
    BY <1>d, <1>e, <2>1, <2>4, SoloRun
<1>2. ASSUME NEW result \in {"success", "failed"}, StepDone(r, result), exec[r].pc \in Step,
             UNCHANGED <<rel, readied, solo>>,
             ready' => cluster'["workload"] \in readied,
             result = "success" /\ r \in solo /\ exec[r].pc \notin {"verify_image", "preflight"}
                => cluster'["workload"] = r,
             result = "success" /\ r \in solo /\ exec[r].pc = "wait_ready" => r \in readied
      PROVE  SoloInv'
  <2>1. exec'[r].res = exec[r].res
    BY Zenon, <1>2, StepDoneEffect
  <2>2. exec'[r].pc = "failing" \/ (result = "success" /\ exec'[r].pc = After[exec[r].pc])
    BY Zenon, <1>2, StepDoneEffect
  <2>3. exec[r].pc \notin {"queued", "failing"}
    BY Zenon, <1>2 DEF Step
  <2>4. CASE exec'[r].pc = "failing"
    <3>1. ~Holding(r)'
      BY Zenon, <2>4 DEF Holding
    <3> QED
      BY Zenon, <1>2, <1>d, <1>e, <2>3, <2>4, <3>1, SoloRun
  <2>5. CASE result = "success" /\ exec'[r].pc = After[exec[r].pc]
    <3>1. /\ exec'[r].pc \notin {"none", "queued"}
          /\ exec'[r].pc = "to_succeeded" => exec[r].pc = "wait_ready"
          /\ exec'[r].pc \in {"preflight", "to_applying"} => exec[r].pc \in {"verify_image", "preflight"}
          /\ exec'[r].pc \notin {"verify_image", "apply_resources"}
      BY Zenon, <1>2, <2>5 DEF After, Step
    <3>2. Holding(r)' => exec[r].pc \notin {"verify_image", "preflight"}
      BY Zenon, <1>2, <2>5 DEF Holding, After, Step
    <3> QED
      BY Zenon, <1>2, <1>d, <1>e, <2>1, <2>3, <2>5, <3>1, <3>2, SoloRun
  <2> QED
    BY <2>2, <2>4, <2>5
<1>3. CASE RunCheck(r)
  <2>1. /\ exec[r].pc \in {"verify_image", "preflight", "sync_endpoints"}
        /\ UNCHANGED <<rel, cluster, ready, readied, solo>>
    BY Zenon, <1>3 DEF RunCheck
  <2>2. PICK result \in {"success", "failed"} : StepDone(r, result)
    BY Zenon, <1>3 DEF RunCheck
  <2>3. exec[r].pc \in Step /\ exec[r].pc # "wait_ready"
    BY Zenon, <2>1 DEF Step
  <2>4. r \in solo /\ exec[r].pc \notin {"verify_image", "preflight"} => cluster'["workload"] = r
    BY Zenon, <1>e, <2>1 DEF Holding
  <2> QED
    BY Zenon, <1>2, <1>e, <2>1, <2>2, <2>3, <2>4
<1>4. CASE WaitReady(r)
  <2>1. exec[r].pc = "wait_ready" /\ exec[r].pc \in Step /\ UNCHANGED <<rel, cluster, ready, readied, solo>>
    BY Zenon, <1>4 DEF WaitReady, Step
  <2>2. r \in solo => cluster["workload"] = r
    BY Zenon, <1>e, <2>1 DEF Holding
  <2>3. CASE ready /\ StepDone(r, "success")
    BY Zenon, <1>2, <1>e, <2>1, <2>2, <2>3
  <2>4. CASE StepDone(r, "failed")
    BY Zenon, <1>2, <1>e, <2>1, <2>4
  <2> QED
    BY Zenon, <1>4, <2>3, <2>4 DEF WaitReady
<1>5. CASE Apply(r)
  <2>1. /\ exec[r].pc = "apply_resources" /\ exec[r].pc \in Step
        /\ UNCHANGED <<rel, readied, solo>>
    BY <1>5 DEF Apply, Step
  <2>2. ASSUME cluster' = [cluster EXCEPT ![exec[r].res] = r], ready' = ReadyAfterApply(exec[r].res)
        PROVE  /\ ready' => cluster'["workload"] \in readied
               /\ exec[r].res = "workload" => cluster'["workload"] = r
               /\ exec[r].res # "workload" => cluster'["workload"] = cluster["workload"]
    <3>1. "workload" \in Resource
      BY DEF Resource
    <3>2. /\ exec[r].res = "workload" => cluster'["workload"] = r
          /\ exec[r].res # "workload" => cluster'["workload"] = cluster["workload"]
      BY <1>a, <1>b, <2>2, <3>1
    <3> QED
      BY Zenon, <1>e, <2>2, <3>2 DEF ReadyAfterApply
  <2>3. CASE StepDone(r, "failed") /\ UNCHANGED <<cluster, ready>>
    BY <1>2, <1>e, <2>1, <2>3
  <2>4. CASE /\ StepDone(r, "success") /\ exec[r].res = "service"
             /\ cluster' = [cluster EXCEPT ![exec[r].res] = r] /\ ready' = ReadyAfterApply(exec[r].res)
    <3>1. r \in solo => cluster'["workload"] = r
      BY Zenon, <1>e, <2>1, <2>2, <2>4 DEF Holding
    <3> QED
      BY Zenon, <1>2, <2>1, <2>2, <2>4, <3>1
  <2>5. ASSUME NEW x \in Resource, exec' = [exec EXCEPT ![r] = [@ EXCEPT !.res = x]],
               x = "service" => exec[r].res = "workload",
               cluster' = [cluster EXCEPT ![exec[r].res] = r], ready' = ReadyAfterApply(exec[r].res)
        PROVE  SoloInv'
    <3>1. exec'[r] = [exec[r] EXCEPT !.res = x]
      BY <1>a, <2>5
    <3>2. exec'[r].pc = exec[r].pc /\ exec'[r].res = x
      BY <1>b, <3>1 DEF ExecRecord
    <3>3. Holding(r)' => cluster'["workload"] = r
      BY Zenon, <2>1, <2>2, <2>5, <3>2 DEF Holding
    <3> QED
      BY <1>d, <1>e, <2>1, <2>2, <2>5, <3>2, <3>3, SoloRun
  <2> QED
    BY Zenon, <1>5, <1>b, <2>3, <2>4, <2>5 DEF Apply, Resource
<1>6. ASSUME NEW row \in Row, NEW s \in Status, NEW pc \in ExecPc, Transition(r, row, s, pc),
             UNCHANGED <<cluster, ready, readied, solo>>, exec[r].pc # "queued",
             exec[r].pc = "failing" => pc = "done",
             s = "succeeded" /\ r \in solo => r \in readied,
             \/ pc = "done"
             \/ pc = "apply_resources" /\ exec[r].pc = "to_applying"
             \/ pc = "wait_ready" /\ exec[r].pc = "to_waiting_ready"
      PROVE  SoloInv'
  <2>1. \/ rel'[r] = Advanced(row, s) /\ exec'[r].pc = pc
        \/ rel'[r] = rel[r] /\ exec'[r].pc = "done"
    BY Zenon, <1>6, TransitionEffect
  <2>2. exec'[r].res = exec[r].res
    BY <1>6, TransitionEffect
  <2>3. Advanced(row, s).status = s
    BY Zenon DEF Advanced, Row
  <2>4. rel'[r].status = "succeeded" /\ r \in solo => r \in readied
    BY Zenon, <1>6, <1>e, <2>1, <2>3
  <2>5. Holding(r)' => Holding(r)
    BY Zenon, <1>6, <1>e, <2>1, <2>2 DEF Holding
  <2> QED
    BY Zenon, <1>6, <1>d, <1>e, <2>1, <2>4, <2>5, SoloRun
<1>7. CASE RunTransition(r)
  <2>1. /\ {"applying", "waiting_ready", "succeeded"} \subseteq Status
        /\ {"apply_resources", "wait_ready", "done"} \subseteq ExecPc
    BY Zenon DEF Status, InProgress, Terminal, ExecPc, Step
  <2>2. UNCHANGED <<cluster, ready, readied, solo>>
    BY <1>7 DEF RunTransition
  <2> QED
    BY <1>7, <1>6, <1>b, <1>e, <2>1, <2>2 DEF RunTransition
<1>8. CASE FailRelease(r)
  <2>1. "failed" \in Status /\ "done" \in ExecPc
    BY Zenon DEF Status, Terminal, ExecPc
  <2> QED
    BY <1>8, <1>6, <1>b, <2>1 DEF FailRelease
<1> QED
  BY Zenon, <1>1, <1>3, <1>4, <1>5, <1>7, <1>8 DEF Execute

(* Every step keeps the facts about executors that run alone. *)
LEMMA SoloStep ==
  ASSUME TypeOK, TypeOK', ControlInv, SoloInv, [Next]_vars
  PROVE  SoloInv'
<1>a. /\ exec \in [ReleaseId -> ExecRecord] /\ rel \in [ReleaseId -> Row]
      /\ req \in [Request -> RequestRecord]
  BY DEF TypeOK
<1>1. ASSUME NEW r \in ReleaseId, Execute(r) PROVE SoloInv'
  BY Zenon, <1>1, SoloStart, SoloExecute DEF ControlInv
<1>2. ASSUME UNCHANGED <<exec, cluster, ready, readied, solo>>,
             \A r \in ReleaseId : rel'[r].status = "succeeded" => rel[r].status = "succeeded"
      PROVE  SoloInv'
  BY Zenon, <1>2 DEF SoloInv, SoloOK, Holding, Active
<1>3. ASSUME NEW q \in Request, Begin(q) PROVE SoloInv'
  BY Zenon, <1>2, <1>3, BeginEffect
<1>4. ASSUME NEW q \in Request, ListReleases(q) PROVE SoloInv'
  BY Zenon, <1>2, <1>4, ListReleasesEffect
<1>5. ASSUME NEW q \in Request, InsertRelease(q) PROVE SoloInv'
  <2>1. UNCHANGED <<exec, cluster, ready, readied, solo>>
    BY <1>5, InsertReleaseEffect
  <2>2. DraftRow(q).status = "draft"
    BY Zenon DEF DraftRow, NoRow
  <2>3. \A r \in ReleaseId : rel'[r] = rel[r] \/ rel'[r] = DraftRow(q)
    BY Zenon, <1>5, <1>a, InsertReleaseEffect
  <2> QED
    BY Zenon, <1>2, <2>1, <2>2, <2>3
<1>6. ASSUME NEW q \in Request, SaveAttribution(q) PROVE SoloInv'
  <2>1. UNCHANGED <<exec, cluster, ready, readied, solo>>
    BY Zenon, <1>6, SaveAttributionEffect
  <2>2. \A r \in ReleaseId : rel'[r].status = rel[r].status
    <3>1. CASE rel' = rel
      BY <3>1
    <3>2. CASE rel' = [rel EXCEPT ![req[q].rid] = [DraftRow(q) EXCEPT !.template = req[q].template,
                                                                      !.source = req[q].source]]
      BY Zenon, <1>6, <3>2, SaveRow
    <3> QED
      BY Zenon, <1>6, <3>1, <3>2, SaveAttributionEffect
  <2> QED
    BY <1>2, <2>1, <2>2
<1>7. ASSUME NEW q \in Request, Launch(q) PROVE SoloInv'
  <2>0. req[q].rid # None /\ exec[req[q].rid].pc = "none"
    BY Zenon, <1>7, LaunchEffect DEF ControlInv, OwnershipInv, Owns
  <2>1. PICK r \in ReleaseId : r = req[q].rid
    BY Zenon, <1>a, <2>0 DEF RequestRecord
  <2>2. exec[r].pc = "none"
    BY <2>0, <2>1
  <2>3. UNCHANGED <<rel, cluster, ready, readied, solo>>
    BY Zenon, <1>7, LaunchEffect
  <2>4. CASE exec' = exec
    BY Zenon, <1>2, <2>3, <2>4
  <2>5. CASE exec' = [exec EXCEPT ![r] = [IdleExec EXCEPT !.pc = "queued"]]
    <3>1. exec'[r] = [IdleExec EXCEPT !.pc = "queued"] /\ \A y \in ReleaseId \ {r} : exec'[y] = exec[y]
      BY <1>a, <2>5
    <3>2. exec'[r].pc = "queued" /\ exec'[r].res = "config"
      <4>1. /\ [IdleExec EXCEPT !.pc = "queued"].pc = "queued"
            /\ [IdleExec EXCEPT !.pc = "queued"].res = "config"
        BY DEF IdleExec
      <4> QED
        BY <3>1, <4>1
    <3>3. \A x \in ReleaseId \ {r} : SoloOK(x)'
      <4>1. exec'[r].pc \in {"none", "queued", "failing", "done"}
        BY <3>2
      <4> QED
        BY Zenon, <2>3, <3>1, <4>1, SoloOther
    <3>4. r \notin solo /\ SoloOK(r)
      BY Zenon, <2>2 DEF SoloInv, SoloOK
    <3>5. SoloOK(r)'
      BY <2>3, <3>2, <3>4 DEF SoloOK, Holding
    <3> QED
      BY <2>3, <3>3, <3>5 DEF SoloInv
  <2> QED
    BY Zenon, <1>7, <2>1, <2>4, <2>5, LaunchEffect
<1>8. CASE WorkloadReady
  <2>1. /\ UNCHANGED <<rel, exec, cluster, solo>> /\ cluster["workload"] \in readied'
        /\ readied \subseteq readied'
    BY Zenon, <1>8 DEF WorkloadReady
  <2>2. \A r \in ReleaseId : SoloOK(r)'
    BY <2>1 DEF SoloInv, SoloOK, Holding, Active
  <2> QED
    BY <2>1, <2>2 DEF SoloInv
<1>9. CASE WorkloadUnready
  <2>1. UNCHANGED <<rel, exec, cluster, readied, solo>> /\ ~ready'
    BY Zenon, <1>9 DEF WorkloadUnready
  <2>2. \A r \in ReleaseId : SoloOK(r)'
    BY Zenon, <2>1 DEF SoloInv, SoloOK, Holding, Active
  <2> QED
    BY <2>1, <2>2 DEF SoloInv
<1>10. CASE Crash
  <2>1. /\ UNCHANGED <<rel, cluster, ready, readied, solo>>
        /\ \A r \in ReleaseId : \/ exec'[r].pc = "none" /\ exec[r].pc = "none"
                                \/ exec'[r].pc = "done" /\ exec[r].pc # "none"
    BY Zenon, <1>10, CrashEffect
  <2>2. \A r \in ReleaseId : SoloOK(r)'
    BY Zenon, <2>1 DEF SoloInv, SoloOK, Holding, Active
  <2> QED
    BY Zenon, <2>1, <2>2 DEF SoloInv
<1>11. CASE UNCHANGED vars
  BY <1>2, <1>11 DEF vars
<1> QED
  BY Zenon, <1>1, <1>3, <1>4, <1>5, <1>6, <1>7, <1>8, <1>9, <1>10, <1>11 DEF Next

(* SoloSuccess: a release that ran alone and is stored as succeeded had    *)
(* its own workload reported ready.                                        *)
THEOREM Solo == Spec => []SoloSuccess
<1>1. Init => SoloInv
  BY DEF Init, SoloInv, SoloOK, Holding, Active, IdleExec
<1>2. TypeOK /\ TypeOK' /\ ControlInv /\ SoloInv /\ [Next]_vars => SoloInv'
  BY Zenon, SoloStep
<1>3. SoloInv => SoloSuccess
  BY DEF SoloInv, SoloOK, SoloSuccess
<1> QED
  BY <1>1, <1>2, <1>3, ControlCorrect, PTL DEF Spec
=============================================================================
