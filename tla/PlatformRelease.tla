-------------------------- MODULE PlatformRelease ---------------------------
(***************************************************************************)
(* Self-update of the platform: a release record is accepted, the          *)
(* platform's own Deployment (strategy Recreate, one replica) is updated,  *)
(* the pod that did it is replaced, and the next one reconciles the        *)
(* records with the Deployment.                                            *)
(*                                                                         *)
(* Webhook, manual update, rollback, the status page and the periodic task *)
(* all run as threads of the one platform process.                         *)
(***************************************************************************)
EXTENDS Integers, FiniteSets

CONSTANTS
    MaxId,          \* release ids are 1..MaxId, in order of creation
    Image,          \* platform images
    BadImage,       \* images whose pod never starts
    Request,        \* request goroutines of the process
    Task,           \* its periodic reconciliation
    None,
    Faults,         \* how an update of the Deployment may fail: "refused", "lost"
    MaxFaults,      \* failed Kubernetes calls
    MaxDBFaults,    \* failed database writes
    MaxCrashes      \* restarts of the process not caused by a rollout

Release == 1..MaxId
Thread == Request \union {Task}

ASSUME ConstantsAssumption ==
    /\ {MaxId, MaxFaults, MaxDBFaults, MaxCrashes} \subseteq Nat
    /\ BadImage \subseteq Image
    /\ Task \notin Request /\ None \notin Thread \union Image
    /\ Faults \subseteq {"refused", "lost"}

VARIABLES
    row,        \* platform_releases
    age,        \* whether a record is older than the 15 minutes allowed
    thread,     \* the threads of the process
    updateMu,   \* the thread that holds the update mutex
    deploy,     \* the Deployment: image and release annotation
    pod,        \* the platform's pod: the release it was created for, its state
    deployed,   \* releases the Deployment was ever set to
    used        \* how much of each bound is used up

vars == <<row, age, thread, updateMu, deploy, pod, deployed, used>>

Incomplete == {"accepted", "applying", "waiting_ready"}
Complete == {"succeeded", "failed"}
Status == {"absent"} \union Incomplete \union Complete

Idle == [pc |-> "idle", id |-> 0, image |-> None, previous |-> None, status |-> "absent"]

Init ==
    /\ row = [r \in Release |-> [status |-> "absent", image |-> None, previous |-> None]]
    /\ age = [r \in Release |-> "young"]
    /\ thread = [t \in Thread |-> Idle]
    /\ updateMu = None
    /\ \E i \in Image \ BadImage : deploy = [image |-> i, release |-> 0]
    /\ pod = [release |-> 0, state |-> "available"]
    /\ deployed = {}
    /\ used = [faults |-> 0, db |-> 0, crashes |-> 0]

-----------------------------------------------------------------------------
\* Threads run while the platform's pod does.
At(t, pc) == thread[t].pc = pc /\ pod.state # "down"
Goto(t, pc) == thread' = [thread EXCEPT ![t] = [@ EXCEPT !.pc = pc]]
Leave(t) == thread' = [thread EXCEPT ![t] = Idle]

Existing == {r \in Release : row[r].status # "absent"}
Write == {"ok"} \union (IF used.db < MaxDBFaults THEN {"error"} ELSE {})
Call == {"ok"} \union (IF used.faults < MaxFaults THEN Faults ELSE {})
WriteCost(w) == used' = IF w = "ok" THEN used ELSE [used EXCEPT !.db = @ + 1]
CallCost(r) == used' = IF r = "ok" THEN used ELSE [used EXCEPT !.faults = @ + 1]

SetStatus(r, s) == row' = [row EXCEPT ![r] = [@ EXCEPT !.status = s]]
SaveStatus(r, s, w) == IF w = "ok" THEN SetStatus(r, s) ELSE UNCHANGED row

-----------------------------------------------------------------------------
(* Webhook, ManualUpdate and Rollback: CreateRelease reads the image the   *)
(* Deployment runs, inserts the record, and the handler goes on to Apply.  *)

ReadStatus(t, image) ==
    /\ At(t, "idle")
    /\ thread' = [thread EXCEPT ![t] = [@ EXCEPT !.pc = "insert", !.image = image, !.previous = deploy.image]]
    /\ UNCHANGED <<row, age, updateMu, deploy, pod, deployed, used>>

\* Requests are admitted while there are ids left for them (a bound of the model).
Admitted == Cardinality(Existing) + Cardinality({t \in Thread : thread[t].pc = "insert"}) < MaxId
Submit(t) == Admitted /\ \E i \in Image : ReadStatus(t, i)
Rollback(t) == Admitted /\ \E r \in Existing : ReadStatus(t, row[r].previous)

NextId(r) == row[r].status = "absent" /\ \A s \in Release : s < r => row[s].status # "absent"
CreateRelease(t) ==
    /\ At(t, "insert")
    /\ \E w \in Write :
        /\ WriteCost(w)
        /\ IF w = "ok"
           THEN \E r \in Release :
                /\ NextId(r)
                /\ row' = [row EXCEPT ![r] = [status |-> "accepted", image |-> thread[t].image,
                                              previous |-> thread[t].previous]]
                /\ thread' = [thread EXCEPT ![t] = [Idle EXCEPT !.pc = "apply", !.id = r]]
           ELSE UNCHANGED row /\ Leave(t)
    /\ UNCHANGED <<age, updateMu, deploy, pod, deployed>>

-----------------------------------------------------------------------------
(* Apply, under updateMu.                                                  *)

\* Mutant: an interrupted release is not taken up again.
LockAccepted(t) ==
    /\ At(t, "apply") /\ updateMu = None
    /\ LET r == thread[t].id IN
       IF row[r].status # "accepted"
       THEN Leave(t) /\ UNCHANGED <<row, updateMu, used>>
       ELSE \E w \in Write :
            /\ WriteCost(w)
            /\ SaveStatus(r, "applying", w)
            /\ IF w = "ok" THEN Goto(t, "update") /\ updateMu' = t ELSE Leave(t) /\ UNCHANGED updateMu
    /\ UNCHANGED <<age, deploy, pod, deployed>>
Lock(t) ==
    /\ At(t, "apply") /\ updateMu = None
    /\ LET r == thread[t].id IN
       IF row[r].status \notin {"accepted", "applying"}
       THEN Leave(t) /\ UNCHANGED <<row, updateMu, used>>
       ELSE \E w \in Write :
            /\ WriteCost(w)
            /\ SaveStatus(r, "applying", w)
            /\ IF w = "ok" THEN Goto(t, "update") /\ updateMu' = t ELSE Leave(t) /\ UNCHANGED updateMu
    /\ UNCHANGED <<age, deploy, pod, deployed>>

\* Mutant: the annotation is updated before the image, and the update fails half way.
UpdateAnnotationFirst(t) ==
    /\ At(t, "update")
    /\ \E r \in Call :
        /\ CallCost(r)
        /\ deploy' = [deploy EXCEPT !.release = thread[t].id, !.image = IF r = "ok" THEN row[thread[t].id].image ELSE @]
        /\ deployed' = deployed \union {thread[t].id}
        /\ thread' = [thread EXCEPT ![t] = [@ EXCEPT !.pc = "applied",
                                                     !.status = IF r = "ok" THEN "waiting_ready" ELSE "failed"]]
    /\ UNCHANGED <<row, age, updateMu, pod>>
UpdateDeployment(t) ==
    /\ At(t, "update")
    /\ \E r \in Call :
        /\ CallCost(r)
        /\ IF r = "refused"
           THEN UNCHANGED <<deploy, deployed>>
           ELSE /\ deploy' = [image |-> row[thread[t].id].image, release |-> thread[t].id]
                /\ deployed' = deployed \union {thread[t].id}
        /\ thread' = [thread EXCEPT ![t] = [@ EXCEPT !.pc = "applied",
                                                     !.status = IF r = "ok" THEN "waiting_ready" ELSE "failed"]]
    /\ UNCHANGED <<row, age, updateMu, pod>>

\* The last save of Apply; its error is ignored.
Applied(t) ==
    /\ At(t, "applied")
    /\ \E w \in Write : WriteCost(w) /\ SaveStatus(thread[t].id, thread[t].status, w)
    /\ updateMu' = None
    /\ Leave(t)
    /\ UNCHANGED <<age, deploy, pod, deployed>>

-----------------------------------------------------------------------------
(* ReconcileLatest: read the newest incomplete record, read the            *)
(* Deployment, decide, save the record that was read.                      *)

LatestIncomplete(r) ==
    /\ row[r].status \in Incomplete
    /\ \A s \in Release : row[s].status \in Incomplete => s <= r

ReadLatest(t) ==
    /\ At(t, "idle")
    /\ \E r \in Release :
        /\ LatestIncomplete(r)
        /\ thread' = [thread EXCEPT ![t] = [@ EXCEPT !.pc = "decide", !.id = r, !.status = row[r].status]]
    /\ UNCHANGED <<row, age, updateMu, deploy, pod, deployed, used>>

\* Mutant: the release annotation is not compared.
MatchesImage(r) == deploy.image = row[r].image
Matches(r) == deploy.release = r /\ deploy.image = row[r].image
Ready == pod.state = "available"

\* The Deployment's status counts an available pod of any revision, and may
\* report a failure to create pods at any time.
Decide(t) ==
    /\ At(t, "decide")
    /\ LET r == thread[t].id IN
       \/ /\ thread[t].status \in {"accepted", "applying"} /\ ~Matches(r)
          /\ Goto(t, "apply")
       \/ /\ thread[t].status = "waiting_ready" \/ Matches(r)
          /\ \/ /\ Matches(r) /\ Ready
                /\ thread' = [thread EXCEPT ![t] = [@ EXCEPT !.pc = "save", !.status = "succeeded"]]
             \/ /\ ~(Matches(r) /\ Ready)
                /\ thread' = [thread EXCEPT ![t] = [@ EXCEPT !.pc = "save", !.status = "failed"]]
             \/ /\ ~(Matches(r) /\ Ready) /\ age[r] = "young"
                /\ Leave(t)
    /\ UNCHANGED <<row, age, updateMu, deploy, pod, deployed, used>>

\* The Deployment cannot be read.
StatusUnavailable(t) ==
    /\ At(t, "decide") /\ used.faults < MaxFaults
    /\ CallCost("refused")
    /\ Leave(t)
    /\ UNCHANGED <<row, age, updateMu, deploy, pod, deployed>>

SaveReconciled(t) ==
    /\ At(t, "save")
    /\ \E w \in Write : WriteCost(w) /\ SaveStatus(thread[t].id, thread[t].status, w)
    /\ Leave(t)
    /\ UNCHANGED <<age, updateMu, deploy, pod, deployed>>

Running(t) ==
    \/ CreateRelease(t) \/ Lock(t) \/ UpdateDeployment(t) \/ Applied(t)
    \/ Decide(t) \/ StatusUnavailable(t) \/ SaveReconciled(t)

-----------------------------------------------------------------------------
(* The cluster. Recreate: the old pod, and the process with it, is gone    *)
(* before the new one starts.                                              *)

Stopped == thread' = [t \in Thread |-> Idle] /\ updateMu' = None

StopOldPod ==
    /\ pod.state # "down" /\ pod.release # deploy.release
    /\ pod' = [pod EXCEPT !.state = "down"]
    /\ Stopped
    /\ UNCHANGED <<row, age, deploy, deployed, used>>

StartPod ==
    /\ pod.state = "down" /\ deploy.image \notin BadImage
    /\ pod' = [release |-> deploy.release, state |-> "starting"]
    /\ UNCHANGED <<row, age, thread, updateMu, deploy, deployed, used>>

PodAvailable ==
    /\ pod.state = "starting"
    /\ pod' = [pod EXCEPT !.state = "available"]
    /\ UNCHANGED <<row, age, thread, updateMu, deploy, deployed, used>>

Crash ==
    /\ pod.state # "down" /\ used.crashes < MaxCrashes
    /\ used' = [used EXCEPT !.crashes = @ + 1]
    /\ pod' = [pod EXCEPT !.state = "starting"]
    /\ Stopped
    /\ UNCHANGED <<row, age, deploy, deployed>>

Age(r) ==
    /\ row[r].status # "absent" /\ age[r] = "young"
    /\ age' = [age EXCEPT ![r] = "old"]
    /\ UNCHANGED <<row, thread, updateMu, deploy, pod, deployed, used>>

Next ==
    \/ \E t \in Request : Submit(t) \/ Rollback(t)
    \/ \E t \in Thread : ReadLatest(t) \/ Running(t)
    \/ StopOldPod \/ StartPod \/ PodAvailable \/ Crash
    \/ \E r \in Release : Age(r)

Spec == Init /\ [][Next]_vars

\* Threads finish what they started, the periodic task keeps reconciling, pods
\* are replaced and time passes. Users are not required to submit anything.
FairSpec ==
    /\ Spec
    /\ \A t \in Thread : WF_vars(Running(t))
    /\ WF_vars(ReadLatest(Task))
    /\ WF_vars(StopOldPod) /\ WF_vars(StartPod)
    /\ \A r \in Release : WF_vars(Age(r))

-----------------------------------------------------------------------------
ThreadRecord == [pc: {"idle", "insert", "apply", "update", "applied", "decide", "save"}, id: 0..MaxId,
                 image: Image \union {None}, previous: Image \union {None}, status: Status]
RowRecord == [status: Status, image: Image \union {None}, previous: Image \union {None}]

\* Records, threads and Deployment are well formed.
TypeOK ==
    /\ row \in [Release -> RowRecord]
    /\ age \in [Release -> {"young", "old"}]
    /\ thread \in [Thread -> ThreadRecord]
    /\ updateMu \in Thread \union {None}
    /\ deploy \in [image: Image, release: 0..MaxId]
    /\ pod \in [release: 0..MaxId, state: {"down", "starting", "available"}]
    /\ deployed \subseteq Release
    /\ used \in [faults: 0..MaxFaults, db: 0..MaxDBFaults, crashes: 0..MaxCrashes]

\* Apply records "applying" before it touches the Deployment: whatever release
\* the Deployment is annotated with has a record past "accepted", and runs the
\* image of that record.
DeploymentRecorded ==
    deploy.release # 0 =>
        /\ row[deploy.release].status \in Status \ {"absent", "accepted"}
        /\ deploy.image = row[deploy.release].image

\* ReconcileLatest compares the release annotation: a release is "succeeded"
\* only if the Deployment was set to it.
SucceededDeployed == \A r \in Release : row[r].status = "succeeded" => r \in deployed

\* Every accepted release ends up succeeded or failed and stays so, across
\* restarts, lost updates and failed calls, unless the platform's own image does
\* not start: then nothing is left to reconcile the record.
Settles ==
    \A r \in Release :
        row[r].status = "accepted" ~> [](row[r].status \in Complete \/ deploy.image \in BadImage)
=============================================================================
