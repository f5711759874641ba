------------------------- MODULE AgentOperations -------------------------
(***************************************************************************)
(* The operations an Agent Runtime asks for and an administrator approves  *)
(* (scaling a Deployment, pulling a verification image on a node, cleaning *)
(* a node's disk), together with the alert whose automation leads to the   *)
(* cleaning: internal/api/agent, internal/service/observability/alerting   *)
(* and the rows of both in internal/store.                                 *)
(*                                                                         *)
(* Every HTTP request and every dispatch goroutine is a process of its     *)
(* own.  An operation's row changes only by a compare-and-set on its       *)
(* status.  The alert's row is saved whole (gorm's Save) from the copy the *)
(* writer read earlier, so a save also puts back every field somebody else *)
(* changed in between; the copies are part of the state.                   *)
(***************************************************************************)
EXTENDS Naturals, FiniteSets

CONSTANTS
    Operation,      \* identifiers newAgentOperationID can draw
    Key,            \* idempotency keys of one Runtime's requests
    Call,           \* requests of the Runtime to the Agent API
    Approver,       \* browser requests that approve or reject
    Notice,         \* Alertmanager webhooks and policy synchronisations
    None,           \* no operation, no key
    MaxSurprises    \* bound on what happens besides the requests: database
                    \* errors, restarts, targets others change, time
                    \* running out, the policy switched off

ASSUME ConstantsAssumption ==
    /\ MaxSurprises \in Nat
    /\ IsFiniteSet(Operation)
    /\ None \notin Operation \cup Key

VARIABLES
    op,         \* rows of agent_operations
    event,      \* the row of the alert in alert_events
    policy,     \* the alert automation policy: is it enabled
    version,    \* resource version of the Deployment, and the mirror's image
    managed,    \* is the node one of the platform's servers
    alert,      \* what Alertmanager holds of the alert
    call,       \* the Runtime's requests
    approver,   \* the administrator's requests
    notice,     \* the notifications and the dispatch goroutines they start
    runs,       \* how often an operation's effect has been started
    hit,        \* the version an operation has written over
    heard,      \* the state the last persisted notification carried
    crossed,    \* has a notification been persisted while a copy was out
    switched,   \* has the policy been switched off
    trouble,    \* has there been a database error or a restart
    surprises   \* how much of the bound is used

world == <<version, managed>>
history == <<runs, hit, heard, crossed, switched>>
vars == <<op, event, policy, version, managed, alert, call, approver, notice,
          runs, hit, heard, crossed, switched, trouble, surprises>>

-----------------------------------------------------------------------------
\* The statuses of internal/model/agent.go and internal/model/observability.go.

Kind == {"scale", "pull", "cleanup"}
OperationStatus == {"none", "pending_approval", "approved", "rejected",
                    "succeeded", "failed", "stale", "expired"}

AgentOperationTerminal(status) ==
    status \in {"rejected", "succeeded", "failed", "stale", "expired"}

EventStatus == {"none", "firing", "analyzing", "awaiting_approval",
                "remediating", "resolved", "failed"}

\* agentAlertEventStates: what the Runtime is told.
AlertState(row) == IF row.ended \/ row.status = "resolved" THEN "resolved" ELSE "firing"

Versions == 0..(MaxSurprises + Cardinality(Operation))

AlertEvent == [status: EventStatus, ended: BOOLEAN, op: Operation \cup {None},
               runtime: BOOLEAN, dispatched: BOOLEAN]
NoEvent == [status |-> "none", ended |-> FALSE, op |-> None,
            runtime |-> FALSE, dispatched |-> FALSE]

OperationRow == [status: OperationStatus, kind: Kind, key: Key \cup {None},
                 version: Versions, late: BOOLEAN]

IdleCall == [pc |-> "idle", kind |-> "scale", key |-> None,
             version |-> 0, copy |-> NoEvent, op |-> None]
IdleApprover == [pc |-> "idle", op |-> None, copy |-> NoEvent, version |-> 0,
                 ok |-> TRUE]
IdleNotice == [pc |-> "idle", state |-> "firing", force |-> FALSE,
               policy |-> FALSE, copy |-> NoEvent]

\* A process that has answered, or that a restart has ended, keeps nothing.
Done(idle) == [idle EXCEPT !.pc = "done"]

-----------------------------------------------------------------------------
\* Processes that hold a copy of the alert's row they may still save.

HoldsCopy ==
    \/ \E c \in Call : call[c].copy # NoEvent
    \/ \E a \in Approver : approver[a].copy # NoEvent
    \/ \E n \in Notice : notice[n].copy # NoEvent

Surprise == surprises < MaxSurprises /\ surprises' = surprises + 1

TroubleOccurs == Surprise /\ trouble' = TRUE

\* UpdateAlertEvent where the caller ignores the error: the whole row, or
\* nothing at all.
SaveEvent(row) ==
    \/ event' = row /\ UNCHANGED <<trouble, surprises>>
    \/ TroubleOccurs /\ UNCHANGED event

Init ==
    /\ op = [o \in Operation |->
               [status |-> "none", kind |-> "scale", key |-> None,
                version |-> 0, late |-> FALSE]]
    /\ event = NoEvent
    /\ policy = TRUE
    /\ version = [k \in {"scale", "pull"} |-> 0]
    /\ managed = TRUE
    /\ alert = "firing"
    /\ call = [c \in Call |-> IdleCall]
    /\ approver = [a \in Approver |-> IdleApprover]
    /\ notice = [n \in Notice |-> IdleNotice]
    /\ runs = [o \in Operation |-> 0]
    /\ hit = [o \in Operation |-> {}]
    /\ heard = "none"
    /\ crossed = FALSE
    /\ switched = FALSE
    /\ trouble = FALSE
    /\ surprises = 0

-----------------------------------------------------------------------------
\* Requests of the Runtime: read the target, create the row, link the alert.

\* DeploymentScale, RegistryNodePullCheck: remember what the request was made
\* against, the Deployment's resource version or the verification image.
RequestChange(c, kind, k) ==
    /\ call[c].pc = "idle"
    /\ kind = "pull" => managed
    /\ call' = [call EXCEPT ![c] = [@ EXCEPT !.pc = "create", !.kind = kind,
                                     !.key = k, !.version = version[kind]]]
    /\ UNCHANGED <<op, event, policy, world, alert, approver, notice, history,
                   trouble, surprises>>

\* MaintenanceCleanupRequest up to the insert: only for an alert that is not
\* resolved, that the policy's Runtime was asked to analyse.
RequestCleanup(c, k) ==
    /\ call[c].pc = "idle"
    /\ event.status \notin {"none", "resolved"}
    /\ policy /\ event.runtime
    /\ call' = [call EXCEPT ![c] = [@ EXCEPT !.pc = "create", !.kind = "cleanup",
                                     !.key = k, !.copy = event]]
    /\ UNCHANGED <<op, event, policy, world, alert, approver, notice, history,
                   trouble, surprises>>

\* Mutant: the look-up of an earlier request is forgotten.
StoredNever(k) == {}

\* The row of a request seen before, or a new one.
Stored(k) == {o \in Operation : op[o].status # "none" /\ op[o].key = k}

\* CreateAgentOperation: one transaction.
CreateAgentOperation(c) ==
    /\ call[c].pc = "create"
    /\ LET k == call[c].key
           linked(o) == IF call[c].kind = "cleanup"
                        THEN [call[c] EXCEPT !.pc = "link", !.op = o]
                        ELSE Done(IdleCall)
       IN \/ \E o \in Stored(k) :
                /\ call' = [call EXCEPT ![c] = linked(o)]
                /\ UNCHANGED <<op, trouble, surprises>>
          \/ /\ Stored(k) = {}
             /\ \E o \in Operation :
                  /\ op[o].status = "none"
                  /\ op' = [op EXCEPT ![o] =
                              [status |-> "pending_approval", kind |-> call[c].kind,
                               key |-> k, version |-> call[c].version, late |-> FALSE]]
                  /\ call' = [call EXCEPT ![c] = linked(o)]
             /\ UNCHANGED <<trouble, surprises>>
          \/ /\ TroubleOccurs
             /\ call' = [call EXCEPT ![c] = Done(IdleCall)]
             /\ UNCHANGED op
    /\ UNCHANGED <<event, policy, world, alert, approver, notice, history>>

\* The rest of MaintenanceCleanupRequest: the alert waits for the approval.
LinkEvent(c) ==
    /\ call[c].pc = "link"
    /\ SaveEvent([call[c].copy EXCEPT !.op = call[c].op, !.status = "awaiting_approval"])
    /\ call' = [call EXCEPT ![c] = Done(IdleCall)]
    /\ UNCHANGED <<op, policy, world, alert, approver, notice, history>>

-----------------------------------------------------------------------------
\* Requests of the administrator: AgentOperationHandler.resolve.

\* resolve up to the dispatch on the decision: an operation that no longer
\* waits is refused, one whose time is over expires.
Resolve(a, o, approve) ==
    /\ approver[a].pc = "idle"
    /\ op[o].status = "pending_approval"
    /\ approver' = [approver EXCEPT ![a] =
         [@ EXCEPT !.op = o, !.pc = IF op[o].late THEN "expired"
                                    ELSE IF approve THEN "inspect" ELSE "rejected"]]
    /\ UNCHANGED <<op, event, policy, world, alert, call, notice, history, trouble, surprises>>

\* Mutant: the resource version is not compared.
OutdatedUnversioned(o) ==
    CASE op[o].kind = "scale" -> FALSE
      [] op[o].kind = "pull" -> version["pull"] # op[o].version \/ ~managed
      [] op[o].kind = "cleanup" -> event.status = "resolved" \/ ~managed

\* What the operation was requested against is no longer there.
Outdated(o) ==
    CASE op[o].kind = "scale" -> version["scale"] # op[o].version
      [] op[o].kind = "pull" -> version["pull"] # op[o].version \/ ~managed
      [] op[o].kind = "cleanup" -> event.status = "resolved" \/ ~managed

\* The reads an approval makes before it is recorded; one that fails ends it.
Inspect(a) ==
    /\ approver[a].pc = "inspect"
    /\ LET o == approver[a].op
       IN approver' = [approver EXCEPT ![a] =
            IF Outdated(o) THEN [@ EXCEPT !.pc = "stale"]
            ELSE [@ EXCEPT !.pc = "approve",
                           !.version = IF op[o].kind = "scale" THEN version["scale"] ELSE 0,
                           !.copy = IF op[o].kind = "cleanup" THEN event ELSE NoEvent]]
    /\ UNCHANGED <<op, event, policy, world, alert, call, notice, history, trouble, surprises>>

InspectFails(a) ==
    /\ approver[a].pc = "inspect"
    /\ approver' = [approver EXCEPT ![a] = Done(IdleApprover)]
    /\ UNCHANGED <<op, event, policy, world, alert, call, notice, history, trouble, surprises>>

\* Mutant: the row is written whatever its status has become.
UpdateStatusAlways(o, from, to) == op' = [op EXCEPT ![o] = [@ EXCEPT !.status = to]]

\* UpdateAgentOperationStatus: only from the status the caller expects.
UpdateAgentOperationStatus(o, from, to) ==
    op' = [op EXCEPT ![o] = IF @.status = from THEN [@ EXCEPT !.status = to] ELSE @]

\* Expire, reject, or mark stale, and answer.
Refuse(a) ==
    /\ approver[a].pc \in {"expired", "rejected", "stale"}
    /\ \/ /\ UpdateAgentOperationStatus(approver[a].op, "pending_approval", approver[a].pc)
          /\ UNCHANGED <<trouble, surprises>>
       \/ TroubleOccurs /\ UNCHANGED op
    /\ approver' = [approver EXCEPT ![a] = Done(IdleApprover)]
    /\ UNCHANGED <<event, policy, world, alert, call, notice, history>>

\* Mutant: the answer of the compare-and-set is not looked at.
ApproveUnchecked(a) ==
    /\ approver[a].pc = "approve"
    /\ UpdateAgentOperationStatus(approver[a].op, "pending_approval", "approved")
    /\ approver' = [approver EXCEPT ![a] = [@ EXCEPT !.pc = "execute"]]
    /\ UNCHANGED <<event, policy, world, alert, call, notice, history, trouble, surprises>>

\* Record the approval; whoever finds the row changed gives up.
Approve(a) ==
    /\ approver[a].pc = "approve"
    /\ LET o == approver[a].op
           next == IF op[o].kind = "cleanup" THEN "mark" ELSE "execute"
       IN \/ /\ UpdateAgentOperationStatus(o, "pending_approval", "approved")
             /\ approver' = [approver EXCEPT ![a] =
                  IF op[o].status = "pending_approval" THEN [@ EXCEPT !.pc = next] ELSE Done(IdleApprover)]
             /\ UNCHANGED <<trouble, surprises>>
          \/ /\ TroubleOccurs
             /\ approver' = [approver EXCEPT ![a] = Done(IdleApprover)]
             /\ UNCHANGED op
    /\ UNCHANGED <<event, policy, world, alert, call, notice, history>>

\* An approved cleanup shows on the alert before it runs.
MarkRemediating(a) ==
    /\ approver[a].pc = "mark"
    /\ LET row == [approver[a].copy EXCEPT !.status = "remediating"]
       IN /\ SaveEvent(row)
          /\ approver' = [approver EXCEPT ![a] = [@ EXCEPT !.pc = "execute", !.copy = row]]
    /\ UNCHANGED <<op, policy, world, alert, call, notice, history>>

\* Kubernetes accepts an update only of the version it was read at.
UpdateDeploymentAccepted(a) == version["scale"] = approver[a].version

\* The effect: it happens or not, and the answer may be lost.
Execute(a) ==
    /\ approver[a].pc = "execute"
    /\ LET o == approver[a].op
       IN \E ok \in BOOLEAN, reached \in BOOLEAN :
            /\ ok => reached
            /\ reached /\ op[o].kind = "scale" => UpdateDeploymentAccepted(a)
            /\ approver' = [approver EXCEPT ![a] = [@ EXCEPT !.pc = "settle", !.ok = ok]]
            /\ runs' = [runs EXCEPT ![o] = IF reached THEN @ + 1 ELSE @]
            /\ IF reached /\ op[o].kind = "scale"
               THEN /\ hit' = [hit EXCEPT ![o] = @ \cup {version["scale"]}]
                    /\ version' = [version EXCEPT !["scale"] = @ + 1]
               ELSE UNCHANGED <<hit, version>>
    /\ UNCHANGED <<op, event, policy, managed, alert, call, notice, heard, crossed,
                   switched, trouble, surprises>>

\* Record the outcome; an error of this write is ignored.
Settle(a) ==
    /\ approver[a].pc = "settle"
    /\ LET o == approver[a].op
       IN /\ \/ /\ UpdateAgentOperationStatus(o, "approved",
                     IF approver[a].ok THEN "succeeded" ELSE "failed")
                /\ UNCHANGED <<trouble, surprises>>
             \/ TroubleOccurs /\ UNCHANGED op
          /\ approver' = [approver EXCEPT ![a] =
               IF op[o].kind = "cleanup" THEN [@ EXCEPT !.pc = "report"] ELSE Done(IdleApprover)]
    /\ UNCHANGED <<event, policy, world, alert, call, notice, history>>

\* Mutant: a cleanup that failed leaves the alert as it is.
ReportSuccessOnly(a) ==
    /\ approver[a].pc = "report"
    /\ IF approver[a].ok
       THEN SaveEvent([approver[a].copy EXCEPT !.status = "firing"])
       ELSE UNCHANGED <<event, trouble, surprises>>
    /\ approver' = [approver EXCEPT ![a] = Done(IdleApprover)]
    /\ UNCHANGED <<op, policy, world, alert, call, notice, history>>

\* A cleanup's outcome goes into the alert: it still fires, or it has failed.
Report(a) ==
    /\ approver[a].pc = "report"
    /\ SaveEvent([approver[a].copy EXCEPT !.status =
                    IF approver[a].ok THEN "firing" ELSE "failed"])
    /\ approver' = [approver EXCEPT ![a] = Done(IdleApprover)]
    /\ UNCHANGED <<op, policy, world, alert, call, notice, history>>

-----------------------------------------------------------------------------
\* Alertmanager's webhook, the policy's synchronisation and what they start.

\* Notify, with what Alertmanager holds: it sends the next webhook once the one
\* before is answered.
Notify(n) ==
    /\ notice[n].pc = "idle"
    /\ \A m \in Notice : notice[m].pc \in {"received", "mark"} => notice[m].force
    /\ notice' = [notice EXCEPT ![n] = [@ EXCEPT !.pc = "received", !.state = alert,
                                         !.policy = policy]]
    /\ UNCHANGED <<op, event, policy, world, alert, call, approver, history, trouble, surprises>>

\* UpdatePolicy with the automation on, and SyncCurrent: what fires now is
\* persisted again and analysed whatever the cooldown.
EnablePolicy(n) ==
    /\ notice[n].pc = "idle"
    /\ policy' = TRUE
    /\ notice' = [notice EXCEPT ![n] =
         IF alert = "firing"
         THEN [@ EXCEPT !.pc = "received", !.force = TRUE, !.policy = TRUE]
         ELSE Done(IdleNotice)]
    /\ UNCHANGED <<op, event, world, alert, call, approver, history, trouble, surprises>>

\* UpdatePolicy with the automation off.
DisablePolicy ==
    /\ policy
    /\ Surprise
    /\ policy' = FALSE
    /\ switched' = TRUE
    /\ UNCHANGED <<op, event, world, alert, call, approver, notice, runs, hit, heard,
                   crossed, trouble>>

\* Mutant: an alert that fires again keeps the time it ended.
UpsertedKeepsEnd(row, state) ==
    IF row.status = "none" THEN [row EXCEPT !.status = state, !.ended = state = "resolved"]
    ELSE IF state = "resolved" THEN [row EXCEPT !.status = "resolved", !.ended = TRUE]
    ELSE IF row.status = "resolved" THEN [row EXCEPT !.status = "firing"]
    ELSE row

\* UpsertAlertEvent: a new row; a resolved alert ends the row whatever its
\* status; one that fires again opens a resolved row; otherwise the automation
\* keeps its status.
Upserted(row, state) ==
    IF row.status = "none" THEN [row EXCEPT !.status = state, !.ended = state = "resolved"]
    ELSE IF state = "resolved" THEN [row EXCEPT !.status = "resolved", !.ended = TRUE]
    ELSE IF row.status = "resolved" THEN [row EXCEPT !.status = "firing", !.ended = FALSE]
    ELSE row

\* ShouldDispatch; whether the cooldown is over is the clock's choice.
ShouldDispatch(row, force, cooled) ==
    /\ row.status \notin {"awaiting_approval", "remediating"}
    /\ force \/ ~row.dispatched \/ cooled

\* PersistAndDispatch up to the decision to analyse.
Upsert(n) ==
    /\ notice[n].pc = "received"
    /\ LET row == Upserted(event, notice[n].state)
       IN \/ \E cooled \in BOOLEAN :
               /\ event' = row
               /\ heard' = notice[n].state
               /\ crossed' = (crossed \/ HoldsCopy)
               /\ notice' = [notice EXCEPT ![n] =
                    IF /\ notice[n].policy
                       /\ row.status # "resolved"
                       /\ ShouldDispatch(row, notice[n].force, cooled)
                    THEN [@ EXCEPT !.pc = "mark", !.copy = row]
                    ELSE Done(IdleNotice)]
               /\ UNCHANGED <<trouble, surprises>>
          \/ /\ TroubleOccurs
             /\ notice' = [notice EXCEPT ![n] = Done(IdleNotice)]
             /\ UNCHANGED <<event, heard, crossed>>
    /\ UNCHANGED <<op, policy, world, alert, call, approver, runs, hit, switched>>

\* The save that opens the analysis; its error ends the notification.
MarkAnalyzing(n) ==
    /\ notice[n].pc = "mark"
    /\ LET row == [notice[n].copy EXCEPT !.status = "analyzing", !.dispatched = TRUE]
       IN \/ /\ event' = row
             /\ notice' = [notice EXCEPT ![n] = [@ EXCEPT !.pc = "dispatch", !.copy = row]]
             /\ UNCHANGED <<trouble, surprises>>
          \/ /\ TroubleOccurs
             /\ notice' = [notice EXCEPT ![n] = Done(IdleNotice)]
             /\ UNCHANGED event
    /\ UNCHANGED <<op, policy, world, alert, call, approver, history>>

\* RuntimeDispatcher.Dispatch up to the call of the Runtime: nothing when the
\* policy no longer matches, a failure when the Runtime is not ready.
Dispatch(n) ==
    /\ notice[n].pc = "dispatch"
    /\ LET row == [notice[n].copy EXCEPT !.runtime = TRUE]
       IN \/ /\ ~policy
             /\ notice' = [notice EXCEPT ![n] = Done(IdleNotice)]
             /\ UNCHANGED <<event, trouble, surprises>>
          \/ /\ policy
             /\ SaveEvent([notice[n].copy EXCEPT !.status = "failed"])
             /\ notice' = [notice EXCEPT ![n] = Done(IdleNotice)]
          \/ /\ policy
             /\ SaveEvent(row)
             /\ notice' = [notice EXCEPT ![n] = [@ EXCEPT !.pc = "chat", !.copy = row]]
    /\ UNCHANGED <<op, policy, world, alert, call, approver, history>>

\* The rest of Dispatch: a report, or a failure, saved over the row.
EndChat(n) ==
    /\ notice[n].pc = "chat"
    /\ LET reported == IF notice[n].copy.op # None THEN "awaiting_approval" ELSE "firing"
       IN \E status \in {reported, "failed"} :
            SaveEvent([notice[n].copy EXCEPT !.status = status])
    /\ notice' = [notice EXCEPT ![n] = Done(IdleNotice)]
    /\ UNCHANGED <<op, policy, world, alert, call, approver, history>>

-----------------------------------------------------------------------------
\* The surroundings: the alert, the clock, other writers and the process.

AlertTurns ==
    /\ alert' = IF alert = "firing" THEN "resolved" ELSE "firing"
    /\ UNCHANGED <<op, event, policy, world, call, approver, notice, history, trouble, surprises>>

\* Fifteen minutes pass without a decision.
BecomesLate(o) ==
    /\ op[o].status = "pending_approval" /\ ~op[o].late
    /\ Surprise
    /\ op' = [op EXCEPT ![o] = [@ EXCEPT !.late = TRUE]]
    /\ UNCHANGED <<event, policy, world, alert, call, approver, notice, history, trouble>>

OthersChange(kind) ==
    /\ Surprise
    /\ version' = [version EXCEPT ![kind] = @ + 1]
    /\ UNCHANGED <<op, event, policy, managed, alert, call, approver, notice, history, trouble>>

NodeRemoved ==
    /\ Surprise
    /\ managed' = FALSE
    /\ UNCHANGED <<op, event, policy, version, alert, call, approver, notice, history, trouble>>

\* The process restarts: requests and dispatch goroutines are gone, the rows stay.
Restart ==
    /\ TroubleOccurs
    /\ call' = [c \in Call |-> IF call[c].pc = "idle" THEN call[c] ELSE Done(IdleCall)]
    /\ approver' = [a \in Approver |-> IF approver[a].pc = "idle" THEN approver[a] ELSE Done(IdleApprover)]
    /\ notice' = [n \in Notice |-> IF notice[n].pc = "idle" THEN notice[n] ELSE Done(IdleNotice)]
    /\ UNCHANGED <<op, event, policy, world, alert, history>>

-----------------------------------------------------------------------------
CallStep(c) == CreateAgentOperation(c) \/ LinkEvent(c)

ApproverStep(a) ==
    \/ Inspect(a) \/ InspectFails(a) \/ Refuse(a) \/ Approve(a)
    \/ MarkRemediating(a) \/ Execute(a) \/ Settle(a) \/ Report(a)

NoticeStep(n) == Upsert(n) \/ MarkAnalyzing(n) \/ Dispatch(n) \/ EndChat(n)

Next ==
    \/ \E c \in Call, k \in Key : \E kind \in {"scale", "pull"} : RequestChange(c, kind, k)
    \/ \E c \in Call, k \in Key : RequestCleanup(c, k)
    \/ \E c \in Call : CallStep(c)
    \/ \E a \in Approver, o \in Operation, approve \in BOOLEAN : Resolve(a, o, approve)
    \/ \E a \in Approver : ApproverStep(a)
    \/ \E n \in Notice : Notify(n) \/ EnablePolicy(n) \/ NoticeStep(n)
    \/ DisablePolicy
    \/ AlertTurns
    \/ \E o \in Operation : BecomesLate(o)
    \/ \E kind \in {"scale", "pull"} : OthersChange(kind)
    \/ NodeRemoved
    \/ Restart

Spec == Init /\ [][Next]_vars

-----------------------------------------------------------------------------
CallState == [pc: {"idle", "create", "link", "done"}, kind: Kind, key: Key \cup {None},
              version: Versions, copy: AlertEvent, op: Operation \cup {None}]
ApproverState == [pc: {"idle", "inspect", "expired", "rejected", "stale", "approve",
                       "mark", "execute", "settle", "report", "done"},
                  op: Operation \cup {None}, copy: AlertEvent, version: Versions,
                  ok: BOOLEAN]
NoticeState == [pc: {"idle", "received", "mark", "dispatch", "chat", "done"},
                state: {"firing", "resolved"}, force: BOOLEAN, policy: BOOLEAN,
                copy: AlertEvent]

\* Every row and every process holds values of the Go types, and the statuses
\* are the ones internal/model lists.
TypeOK ==
    /\ op \in [Operation -> OperationRow]
    /\ event \in AlertEvent
    /\ policy \in BOOLEAN /\ managed \in BOOLEAN
    /\ version \in [{"scale", "pull"} -> Versions]
    /\ alert \in {"firing", "resolved"}
    /\ call \in [Call -> CallState]
    /\ approver \in [Approver -> ApproverState]
    /\ notice \in [Notice -> NoticeState]
    /\ runs \in [Operation -> Nat]
    /\ hit \in [Operation -> SUBSET Versions]
    /\ heard \in {"none", "firing", "resolved"}
    /\ crossed \in BOOLEAN /\ switched \in BOOLEAN
    /\ trouble \in BOOLEAN /\ surprises \in 0..MaxSurprises

\* However many administrators approve an operation at once, reject it or let it
\* expire meanwhile, and whatever fails, its effect is started at most once
\* (the comment of UpdateAgentOperationStatus promises that a retry of the
\* approval executes nothing again).
ExecutedOnce == \A o \in Operation : runs[o] <= 1

\* The recorded outcome is the truth: what was refused, or still waits, has
\* touched nothing, and what succeeded has run.
OutcomeHonest ==
    \A o \in Operation :
        /\ op[o].status \in {"none", "pending_approval", "rejected", "stale", "expired"} =>
             runs[o] = 0
        /\ op[o].status = "succeeded" => runs[o] = 1

\* A Deployment is scaled only from the version the request was made against,
\* also when it changes between the approval's read and its update.
ScalesRequestedVersion == \A o \in Operation : hit[o] \subseteq {op[o].version}

\* Requests repeated with one idempotency key, even at the same time, share one
\* operation: nobody is asked to approve the same thing twice.
OneOperationPerRequest ==
    \A o, p \in Operation :
        op[o].status # "none" /\ op[p].status # "none" /\ op[o].key = op[p].key => o = p

\* An operation that is decided stays as decided, and only an approved one ends
\* with an outcome.
DecidedForGood ==
    [][\A o \in Operation :
         /\ AgentOperationTerminal(op[o].status) => op'[o].status = op[o].status
         /\ op'[o].status \in {"succeeded", "failed"} /\ op[o].status # op'[o].status =>
              op[o].status = "approved"]_vars

\* What the Runtime is told of the alert (agentAlertEventStates) is what the last
\* persisted notification said, as long as no notification crossed with a
\* process that holds a copy of the row.
AlertStateTracks ==
    ~crossed /\ heard # "none" =>
        (AlertState(event) = "resolved" <=> heard = "resolved")

\* alert_state is the alert's real state: what the Runtime is told is always what
\* the last persisted notification said.
AlertStateTrue ==
    heard # "none" => (AlertState(event) = "resolved" <=> heard = "resolved")

\* An operation stays approved, and an alert shows as under repair or under
\* analysis, only while a process works on it that will say how it went; a
\* database error, a restart and a policy switched off under a dispatch are the
\* only ways to leave it there.
WorkHasOwner ==
    ~trouble =>
        /\ \A o \in Operation : op[o].status = "approved" =>
             \E a \in Approver : approver[a].op = o /\
                                 approver[a].pc \in {"mark", "execute", "settle"}
        /\ event.status = "remediating" =>
             \E a \in Approver : approver[a].pc \in {"execute", "settle", "report"}
        /\ event.status = "analyzing" /\ ~switched =>
             \E n \in Notice : notice[n].pc \in {"dispatch", "chat"}

\* Nothing that was started is lost sight of: an alert shows what the last
\* notification said (AlertStateTracks), and whatever shows as being worked on has
\* a process that will say how it went (WorkHasOwner).
NothingForgotten == TypeOK /\ AlertStateTracks /\ WorkHasOwner

=============================================================================
