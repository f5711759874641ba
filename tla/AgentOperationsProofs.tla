----------------------- MODULE AgentOperationsProofs ------------------------
(***************************************************************************)
(* Proofs about AgentOperations: what an approved operation does, and how  *)
(* often, for any number of operations, requests, administrators,          *)
(* notifications and surprises.                                            *)
(*                                                                         *)
(* ExecutedOnce and OutcomeHonest are not inductive: that an operation     *)
(* runs once follows from the compare-and-set that makes one approver its  *)
(* owner, long before the effect is started. OwnerInv says what an         *)
(* approver may rely on at each place of AgentOperationHandler.resolve.    *)
(*                                                                         *)
(* The second part is about the alert's row, which every writer saves      *)
(* whole from a copy it read earlier, and the processes that owe an        *)
(* approved operation, a repair or an analysis its end. AlertStateTracks   *)
(* is not inductive: a save undoes whatever was persisted since its copy   *)
(* was read. AInv says what every copy looks like (the alert fires in it), *)
(* that no copy outlives the notification that ends the alert unless the   *)
(* two crossed, and who works on what.                                     *)
(***************************************************************************)
EXTENDS AgentOperations, FiniteSetTheorems, TLAPS

-----------------------------------------------------------------------------
\* The shape of the rows and processes.  Versions are only known to be naturals
\* here; that they stay within the bound of TypeOK is a matter of counting.
OperationShape == [status: OperationStatus, kind: Kind, key: Key \cup {None},
                   version: Nat, late: BOOLEAN]
CallShape == [pc: {"idle", "create", "link", "done"}, kind: Kind, key: Key \cup {None},
              version: Nat, copy: AlertEvent, op: Operation \cup {None}]
ApproverShape == [pc: {"idle", "inspect", "expired", "rejected", "stale", "approve",
                       "mark", "execute", "settle", "report", "done"},
                  op: Operation \cup {None}, copy: AlertEvent, version: Nat, ok: BOOLEAN]

Shape ==
    /\ op \in [Operation -> OperationShape]
    /\ event \in AlertEvent
    /\ version \in [{"scale", "pull"} -> Nat]
    /\ call \in [Call -> CallShape]
    /\ approver \in [Approver -> ApproverShape]
    /\ runs \in [Operation -> Nat]
    /\ hit \in [Operation -> SUBSET Nat]
    /\ alert \in {"firing", "resolved"}
    /\ notice \in [Notice -> NoticeState]
    /\ policy \in BOOLEAN

\* What an approver p may rely on, given the rows and what has run.
Working == {"mark", "execute", "settle"}

Relies(p, rows, ran) ==
    /\ p.pc \notin {"idle", "done"} => p.op \in Operation /\ rows[p.op].status # "none"
    /\ p.pc \in Working => rows[p.op].status = "approved"
    /\ p.pc \in {"mark", "execute"} => ran[p.op] = 0
    /\ p.pc = "settle" => ran[p.op] <= 1 /\ (p.ok => ran[p.op] = 1)
    /\ p.pc \in {"approve", "mark", "execute"} /\ rows[p.op].kind = "scale" =>
         p.version = rows[p.op].version

\* An approved operation has at most one owner.
OneOwner ==
    \A a, b \in Approver :
        approver[a].pc \in Working /\ approver[b].pc \in Working
            /\ approver[a].op = approver[b].op => a = b

OwnerInv == OneOwner /\ \A a \in Approver : Relies(approver[a], op, runs)

\* A row nobody has written yet has no history.
Untouched == \A o \in Operation : op[o].status = "none" => hit[o] = {}

IInv ==
    /\ Shape /\ OwnerInv /\ Untouched
    /\ ExecutedOnce /\ OutcomeHonest /\ ScalesRequestedVersion /\ OneOperationPerRequest

-----------------------------------------------------------------------------
\* A row of agent_operations that is written keeps its kind, key and version.
Kept ==
    \A o \in Operation : op[o].status # "none" =>
        /\ op'[o].status # "none"
        /\ op'[o].kind = op[o].kind /\ op'[o].key = op[o].key
        /\ op'[o].version = op[o].version

\* The initial values and the values a process ends with have the right shape.
LEMMA Values ==
    /\ NoEvent \in AlertEvent
    /\ IdleCall \in CallShape /\ Done(IdleCall) \in CallShape
    /\ IdleApprover \in ApproverShape /\ Done(IdleApprover) \in ApproverShape
    /\ IdleNotice \in NoticeState /\ Done(IdleNotice) \in NoticeState
    /\ Done(IdleApprover).pc = "done"
<1>1. NoEvent \in AlertEvent
  BY DEF NoEvent, AlertEvent, EventStatus
<1> QED
  BY Zenon, <1>1 DEF IdleCall, CallShape, Kind, Done, IdleApprover, ApproverShape, IdleNotice, NoticeState

\* Changing the fields a save changes leaves an alert's row a row.
LEMMA Rows ==
    ASSUME NEW row \in AlertEvent, NEW s \in EventStatus
    PROVE  /\ [row EXCEPT !.status = s] \in AlertEvent
           /\ [row EXCEPT !.runtime = TRUE] \in AlertEvent
           /\ [row EXCEPT !.status = s, !.dispatched = TRUE] \in AlertEvent
           /\ \A o \in Operation \cup {None} : [row EXCEPT !.op = o, !.status = s] \in AlertEvent
           /\ \A e \in BOOLEAN : [row EXCEPT !.status = s, !.ended = e] \in AlertEvent
BY Zenon DEF AlertEvent

-----------------------------------------------------------------------------
\* UpdateAgentOperationStatus keeps the shape of the rows, touches one row, and
\* that one only when it has the expected status.
LEMMA CompareAndSet ==
    ASSUME op \in [Operation -> OperationShape], NEW o \in Operation,
           NEW from \in OperationStatus \ {"none"}, NEW to \in OperationStatus \ {"none"},
           UpdateAgentOperationStatus(o, from, to)
    PROVE  /\ op' \in [Operation -> OperationShape]
           /\ Kept
           /\ \A x \in Operation : op'[x] # op[x] =>
                x = o /\ op[x].status = from /\ op'[x].status = to
           /\ op[o].status = from => op'[o].status = to
           /\ \A x \in Operation : /\ op'[x].kind = op[x].kind /\ op'[x].key = op[x].key
                                   /\ op'[x].version = op[x].version
                                   /\ op'[x].status = "none" <=> op[x].status = "none"
<1> DEFINE new == [op[o] EXCEPT !.status = to]
<1>1. op[o] \in OperationShape
  OBVIOUS
<1>2. /\ new \in OperationShape
      /\ new.status = to /\ new.kind = op[o].kind /\ new.key = op[o].key /\ new.version = op[o].version
  BY <1>1 DEF OperationShape
<1>3. op' = [op EXCEPT ![o] = IF op[o].status = from THEN new ELSE op[o]]
  BY DEF UpdateAgentOperationStatus
<1> HIDE DEF new
<1>4. \A x \in Operation : op'[x] = IF x = o /\ op[o].status = from THEN new ELSE op[x]
  BY <1>3
<1>5. op' \in [Operation -> OperationShape]
  BY <1>1, <1>2, <1>3
<1> QED
  BY <1>2, <1>4, <1>5 DEF Kept

\* The effect of every step of the Runtime's requests on rows and approvers.
LEMMA CallShapes ==
    ASSUME Shape, NEW c \in Call,
           (\E k \in Key : RequestCleanup(c, k) \/ \E kind \in {"scale", "pull"} : RequestChange(c, kind, k))
               \/ LinkEvent(c)
    PROVE  Shape' /\ UNCHANGED <<op, approver, runs, hit>>
<1>1. call[c] \in CallShape
  BY DEF Shape
<1>2. ASSUME NEW k \in Key, NEW kind \in {"scale", "pull"}, RequestChange(c, kind, k)
      PROVE  Shape'
  <2>1. [call[c] EXCEPT !.pc = "create", !.kind = kind, !.key = k, !.version = version[kind]] \in CallShape
    BY Zenon, <1>1 DEF CallShape, Shape, Kind
  <2> QED
    BY Zenon, <1>2, <2>1 DEF RequestChange, Shape, world, history
<1>3. ASSUME NEW k \in Key, RequestCleanup(c, k)
      PROVE  Shape'
  <2>1. [call[c] EXCEPT !.pc = "create", !.kind = "cleanup", !.key = k, !.copy = event] \in CallShape
    BY Zenon, <1>1 DEF CallShape, Shape, Kind
  <2> QED
    BY Zenon, <1>3, <2>1 DEF RequestCleanup, Shape, world, history
<1>4. ASSUME LinkEvent(c) PROVE Shape'
  <2>1. [call[c].copy EXCEPT !.op = call[c].op, !.status = "awaiting_approval"] \in AlertEvent
    BY Zenon, <1>1, Rows DEF CallShape, EventStatus
  <2>2. event' \in AlertEvent
    BY <1>4, <2>1 DEF LinkEvent, SaveEvent, Shape
  <2> QED
    BY <1>4, <2>2, Values DEF LinkEvent, Shape, world, history
<1>5. UNCHANGED <<op, approver, runs, hit>>
  BY Zenon DEF RequestChange, RequestCleanup, LinkEvent, world, history
<1> QED
  BY <1>2, <1>3, <1>4, <1>5

\* CreateAgentOperation inserts a row under a key no other row has, or none.
LEMMA CreateEffect ==
    ASSUME Shape, NEW c \in Call, CreateAgentOperation(c)
    PROVE  /\ Shape' /\ UNCHANGED <<approver, runs, hit>>
           /\ \/ UNCHANGED op
              \/ \E o \in Operation, row \in OperationShape :
                   /\ op[o].status = "none" /\ row.status = "pending_approval"
                   /\ op' = [op EXCEPT ![o] = row]
                   /\ Stored(row.key) = {}
<1> DEFINE k == call[c].key
           linked(o) == IF call[c].kind = "cleanup"
                        THEN [call[c] EXCEPT !.pc = "link", !.op = o]
                        ELSE Done(IdleCall)
           new == [status |-> "pending_approval", kind |-> call[c].kind,
                   key |-> k, version |-> call[c].version, late |-> FALSE]
<1>1. call[c] \in CallShape
  BY DEF Shape
<1>2. \A o \in Operation : linked(o) \in CallShape
  BY Zenon, <1>1, Values DEF CallShape
<1>3. new \in OperationShape /\ new.status = "pending_approval" /\ new.key = k
  BY <1>1 DEF CallShape, OperationShape, OperationStatus
<1>4. UNCHANGED <<event, policy, version, alert, approver, notice, runs, hit>>
  BY Zenon DEF CreateAgentOperation, world, history
<1>5. CASE \E o \in Stored(k) : call' = [call EXCEPT ![c] = linked(o)] /\ UNCHANGED op
  <2>1. PICK o \in Stored(k) : call' = [call EXCEPT ![c] = linked(o)] /\ UNCHANGED op
    BY Zenon, <1>5
  <2>2. o \in Operation
    BY DEF Stored
  <2>3. linked(o) \in CallShape
    BY Zenon, <2>2, <1>2
  <2> HIDE DEF linked
  <2> QED
    BY <2>1, <2>3, <1>4 DEF Shape
<1>6. CASE Stored(k) = {} /\ \E o \in Operation :
             op[o].status = "none" /\ op' = [op EXCEPT ![o] = new] /\ call' = [call EXCEPT ![c] = linked(o)]
  <2>1. PICK o \in Operation :
             op[o].status = "none" /\ op' = [op EXCEPT ![o] = new] /\ call' = [call EXCEPT ![c] = linked(o)]
    BY Zenon, <1>6
  <2>2. linked(o) \in CallShape
    BY Zenon, <1>2
  <2> HIDE DEF linked, new
  <2>3. op' \in [Operation -> OperationShape] /\ call' \in [Call -> CallShape]
    BY <2>1, <2>2, <1>3 DEF Shape
  <2>4. Shape'
    BY <2>3, <1>4 DEF Shape
  <2> QED
    BY Zenon, <2>1, <2>4, <1>3, <1>4, <1>6
<1>7. CASE call' = [call EXCEPT ![c] = Done(IdleCall)] /\ UNCHANGED op
  BY <1>7, <1>4, Values DEF Shape
<1> QED
  BY Zenon, <1>5, <1>6, <1>7 DEF CreateAgentOperation

\* Notifications, policy changes and dispatches touch neither operations nor
\* approvers.
LEMMA NoticeEffect ==
    ASSUME Shape, NEW n \in Notice, Notify(n) \/ EnablePolicy(n) \/ NoticeStep(n)
    PROVE  Shape' /\ UNCHANGED <<op, approver, runs, hit>>
<1>1. UNCHANGED <<op, version, call, approver, runs, hit, alert>>
  BY DEF Notify, EnablePolicy, NoticeStep, Upsert, MarkAnalyzing, Dispatch, EndChat, world, history
<1>2. notice[n] \in NoticeState /\ notice[n].copy \in AlertEvent
  BY DEF Shape, NoticeState
<1>3. \A s \in {"received", "mark", "dispatch", "chat"}, row \in AlertEvent :
        [notice[n] EXCEPT !.pc = s, !.copy = row] \in NoticeState
  BY Zenon, <1>2 DEF NoticeState
<1> SUFFICES event' \in AlertEvent /\ notice' \in [Notice -> NoticeState] /\ policy' \in BOOLEAN
  BY <1>1 DEF Shape
<1>4. CASE Notify(n)
  <2>1. [notice[n] EXCEPT !.pc = "received", !.state = alert, !.policy = policy] \in NoticeState
    BY Zenon, <1>2 DEF NoticeState, Shape
  <2> QED
    BY <1>4, <2>1 DEF Notify, Shape
<1>5. CASE EnablePolicy(n)
  <2>1. [notice[n] EXCEPT !.pc = "received", !.force = TRUE, !.policy = TRUE] \in NoticeState
    BY Zenon, <1>2 DEF NoticeState
  <2> QED
    BY <1>5, <2>1, Values DEF EnablePolicy, Shape
<1>6. CASE Upsert(n)
  <2> DEFINE row == Upserted(event, notice[n].state)
  <2>1. row \in AlertEvent
    BY Zenon, <1>2, Rows DEF Upserted, Shape, NoticeState, EventStatus
  <2>2. [notice[n] EXCEPT !.pc = "mark", !.copy = row] \in NoticeState
    BY Zenon, <1>3, <2>1
  <2> HIDE DEF row
  <2>3. event' \in AlertEvent /\ policy' \in BOOLEAN
    BY <1>6, <2>1 DEF Upsert, Shape, row
  <2>4. notice' = [notice EXCEPT ![n] = [@ EXCEPT !.pc = "mark", !.copy = row]]
          \/ notice' = [notice EXCEPT ![n] = Done(IdleNotice)]
    BY <1>6 DEF Upsert, row
  <2> QED
    BY <2>2, <2>3, <2>4, Values DEF Shape
<1>7. CASE MarkAnalyzing(n)
  <2> DEFINE row == [notice[n].copy EXCEPT !.status = "analyzing", !.dispatched = TRUE]
  <2>1. row \in AlertEvent
    BY Zenon, <1>2, Rows DEF EventStatus
  <2>2. [notice[n] EXCEPT !.pc = "dispatch", !.copy = row] \in NoticeState
    BY Zenon, <1>3, <2>1
  <2> QED
    BY <1>7, <2>1, <2>2, Values DEF MarkAnalyzing, Shape
<1>8. CASE Dispatch(n)
  <2> DEFINE row == [notice[n].copy EXCEPT !.runtime = TRUE]
  <2>1. row \in AlertEvent /\ [notice[n].copy EXCEPT !.status = "failed"] \in AlertEvent
    BY Zenon, <1>2, Rows DEF EventStatus
  <2>2. [notice[n] EXCEPT !.pc = "chat", !.copy = row] \in NoticeState
    BY Zenon, <1>3, <2>1
  <2> QED
    BY Zenon, <1>8, <2>1, <2>2, Values DEF Dispatch, SaveEvent, Shape
<1>9. CASE EndChat(n)
  <2>1. \A s \in EventStatus : [notice[n].copy EXCEPT !.status = s] \in AlertEvent
    BY Zenon, <1>2, Rows
  <2>2. event' \in AlertEvent
    BY <1>9, <2>1 DEF EndChat, SaveEvent, Shape, EventStatus
  <2> QED
    BY <1>9, <2>2, Values DEF EndChat, Shape
<1> QED
  BY Zenon, <1>4, <1>5, <1>6, <1>7, <1>8, <1>9 DEF NoticeStep

-----------------------------------------------------------------------------
\* Two approvers with the same operation are not both past the approval: the
\* shape of every step of an approver a that leaves the others valid.
LEMMA OwnerStep ==
    ASSUME IInv, NEW a \in Approver, NEW p \in ApproverShape,
           approver' = [approver EXCEPT ![a] = p],
           Relies(p, op', runs'),
           \A b \in Approver \ {a} : Relies(approver[b], op', runs'),
           p.pc \in Working => \A b \in Approver \ {a} : approver[b].pc \in Working => approver[b].op # p.op
    PROVE  OwnerInv' /\ approver' \in [Approver -> ApproverShape]
<1>1. approver \in [Approver -> ApproverShape]
  BY DEF IInv, Shape
<1>2. approver'[a] = p /\ \A b \in Approver \ {a} : approver'[b] = approver[b]
  BY <1>1
<1>3. \A b \in Approver : Relies(approver'[b], op', runs')
  BY <1>2
<1>4. OneOwner'
  BY <1>2 DEF OneOwner, IInv, OwnerInv
<1> QED
  BY <1>1, <1>3, <1>4 DEF OwnerInv

\* A step that only moves approvers, and makes none an owner.
LEMMA MoveOnly ==
    ASSUME IInv, NEW a \in Approver, NEW p \in ApproverShape,
           approver' = [approver EXCEPT ![a] = p],
           UNCHANGED <<op, version, call, runs, hit, alert, notice, policy>>,
           event' \in AlertEvent,
           Relies(p, op, runs),
           p.pc \in Working => approver[a].pc \in Working /\ p.op = approver[a].op
    PROVE  IInv' /\ Kept
<1>1. \A b \in Approver \ {a} : Relies(approver[b], op', runs')
  BY DEF IInv, OwnerInv
<1>2. p.pc \in Working => \A b \in Approver \ {a} : approver[b].pc \in Working => approver[b].op # p.op
  BY DEF IInv, OwnerInv, OneOwner
<1>3. OwnerInv' /\ approver' \in [Approver -> ApproverShape]
  BY Zenon, <1>1, <1>2, OwnerStep
<1> QED
  BY <1>3 DEF IInv, Shape, Untouched, ExecutedOnce, OutcomeHonest, ScalesRequestedVersion,
              OneOperationPerRequest, Kept

\* resolve reads a pending operation.
LEMMA ResolveStep ==
    ASSUME IInv, NEW a \in Approver, NEW o \in Operation, NEW approve \in BOOLEAN, Resolve(a, o, approve)
    PROVE  IInv' /\ Kept
<1> DEFINE s == IF op[o].late THEN "expired" ELSE IF approve THEN "inspect" ELSE "rejected"
           p == [approver[a] EXCEPT !.op = o, !.pc = s]
<1>1. approver[a] \in ApproverShape
  BY DEF IInv, Shape
<1>2. p \in ApproverShape /\ p.pc = s /\ p.op = o
  BY Zenon, <1>1 DEF ApproverShape
<1>3. s \in {"expired", "inspect", "rejected"}
  OBVIOUS
<1>4. approver' = [approver EXCEPT ![a] = p]
  BY DEF Resolve
<1>5. op[o].status # "none"
  BY DEF Resolve
<1>6. UNCHANGED <<op, version, call, runs, hit, alert, notice, policy>> /\ event' \in AlertEvent
  BY DEF Resolve, IInv, Shape, world, history
<1> HIDE DEF p, s
<1>7. Relies(p, op, runs)
  BY <1>2, <1>3, <1>5 DEF Relies, Working
<1> QED
  BY Zenon, <1>2, <1>3, <1>4, <1>6, <1>7, MoveOnly DEF Working

\* The end of an approver's request.
LEMMA EndsWell ==
    ASSUME NEW rows, NEW ran
    PROVE  Relies(Done(IdleApprover), rows, ran) /\ Done(IdleApprover).pc \notin Working
BY DEF Relies, Done, IdleApprover, Working

\* The approval remembers the Deployment's version, which is the requested one.
LEMMA InspectStep ==
    ASSUME IInv, NEW a \in Approver, Inspect(a) \/ InspectFails(a)
    PROVE  IInv' /\ Kept
<1>1. approver[a] \in ApproverShape /\ Relies(approver[a], op, runs) /\ approver[a].pc = "inspect"
  BY DEF IInv, Shape, OwnerInv, Inspect, InspectFails
<1>2. UNCHANGED <<op, version, call, runs, hit, alert, notice, policy>> /\ event' \in AlertEvent
  BY DEF Inspect, InspectFails, IInv, Shape, world, history
<1>3. CASE InspectFails(a)
  BY Zenon, <1>2, <1>3, Values, EndsWell, MoveOnly DEF InspectFails
<1>4. CASE Inspect(a)
  <2> DEFINE o == approver[a].op
             q == [approver[a] EXCEPT !.pc = "stale"]
             r == [approver[a] EXCEPT !.pc = "approve",
                           !.version = IF op[o].kind = "scale" THEN version["scale"] ELSE 0,
                           !.copy = IF op[o].kind = "cleanup" THEN event ELSE NoEvent]
  <2>1. o \in Operation /\ op[o].status # "none" /\ op[o] \in OperationShape
    BY Zenon, <1>1 DEF Relies, IInv, Shape
  <2>2. q \in ApproverShape /\ q.pc = "stale" /\ q.op = o
    BY <1>1 DEF ApproverShape
  <2>3. /\ r \in ApproverShape /\ r.pc = "approve" /\ r.op = o
        /\ op[o].kind = "scale" => r.version = version["scale"]
    BY Zenon, <1>1, Values DEF ApproverShape, IInv, Shape
  <2>4. approver' = [approver EXCEPT ![a] = IF Outdated(o) THEN q ELSE r]
    BY <1>4 DEF Inspect
  <2>5. ~Outdated(o) /\ op[o].kind = "scale" => version["scale"] = op[o].version
    BY DEF Outdated
  <2> HIDE DEF q, r
  <2>6. Relies(q, op, runs)
    BY Zenon, <2>1, <2>2 DEF Relies, Working
  <2>7. ~Outdated(o) => Relies(r, op, runs)
    BY Zenon, <2>1, <2>3, <2>5 DEF Relies, Working
  <2>8. CASE Outdated(o)
    BY Zenon, <1>2, <2>2, <2>4, <2>6, <2>8, MoveOnly DEF Working
  <2>9. CASE ~Outdated(o)
    BY Zenon, <1>2, <2>3, <2>4, <2>7, <2>9, MoveOnly DEF Working
  <2> QED
    BY <2>8, <2>9
<1> QED
  BY <1>3, <1>4

\* The alert is saved around an execution; neither save decides anything.
LEMMA MarkReportStep ==
    ASSUME IInv, NEW a \in Approver, MarkRemediating(a) \/ Report(a)
    PROVE  IInv' /\ Kept
<1>1. /\ approver[a] \in ApproverShape /\ Relies(approver[a], op, runs)
      /\ approver[a].copy \in AlertEvent
  BY DEF IInv, Shape, OwnerInv, ApproverShape
<1>2. UNCHANGED <<op, version, call, runs, hit, alert, notice, policy>>
  BY DEF MarkRemediating, Report, world, history
<1>3. \A s \in EventStatus : [approver[a].copy EXCEPT !.status = s] \in AlertEvent
  BY Zenon, <1>1, Rows
<1>4. event' \in AlertEvent
  BY Zenon, <1>3 DEF MarkRemediating, Report, SaveEvent, IInv, Shape, EventStatus
<1>5. CASE Report(a)
  BY Zenon, <1>2, <1>4, <1>5, Values, EndsWell, MoveOnly DEF Report
<1>6. CASE MarkRemediating(a)
  <2> DEFINE row == [approver[a].copy EXCEPT !.status = "remediating"]
             p == [approver[a] EXCEPT !.pc = "execute", !.copy = row]
  <2>1. row \in AlertEvent
    BY <1>3 DEF EventStatus
  <2>2. p \in ApproverShape /\ p.pc = "execute" /\ p.op = approver[a].op /\ p.version = approver[a].version
    BY Zenon, <1>1, <2>1 DEF ApproverShape
  <2>3. approver' = [approver EXCEPT ![a] = p] /\ approver[a].pc = "mark"
    BY <1>6 DEF MarkRemediating
  <2> HIDE DEF p
  <2>4. Relies(p, op, runs)
    BY Zenon, <1>1, <2>2, <2>3 DEF Relies, Working
  <2> QED
    BY Zenon, <1>2, <1>4, <2>2, <2>3, <2>4, MoveOnly DEF Working
<1> QED
  BY <1>5, <1>6

\* The conditional updates that decide an operation while it waits: whoever
\* comes second changes nothing.
LEMMA DecideStep ==
    ASSUME IInv, NEW a \in Approver, NEW o \in Operation, NEW p \in ApproverShape,
           NEW to \in {"expired", "rejected", "stale", "approved"},
           UpdateAgentOperationStatus(o, "pending_approval", to),
           approver' = [approver EXCEPT ![a] = p],
           UNCHANGED <<event, version, call, runs, hit, alert, notice, policy>>,
           Relies(p, op', runs),
           p.pc \in Working => p.op = o /\ op[o].status = "pending_approval"
    PROVE  IInv' /\ Kept
<1>1. /\ op' \in [Operation -> OperationShape] /\ Kept
      /\ \A x \in Operation : op'[x] # op[x] =>
           x = o /\ op[x].status = "pending_approval" /\ op'[x].status = to
      /\ \A x \in Operation : /\ op'[x].kind = op[x].kind /\ op'[x].key = op[x].key
                              /\ op'[x].version = op[x].version
                              /\ op'[x].status = "none" <=> op[x].status = "none"
  <2>1. op \in [Operation -> OperationShape]
    BY DEF IInv, Shape
  <2>2. "pending_approval" \in OperationStatus \ {"none"} /\ to \in OperationStatus \ {"none"}
    BY DEF OperationStatus
  <2> QED
    BY <2>1, <2>2, CompareAndSet
<1>2. \A b \in Approver \ {a} : Relies(approver[b], op', runs')
  BY <1>1 DEF IInv, OwnerInv, Relies, Working
<1>3. p.pc \in Working => \A b \in Approver \ {a} : approver[b].pc \in Working => approver[b].op # p.op
  BY Zenon DEF IInv, OwnerInv, Relies
<1>4. OwnerInv' /\ approver' \in [Approver -> ApproverShape]
  BY Zenon, <1>2, <1>3, OwnerStep
<1>5. Shape'
  BY Zenon, <1>1, <1>4 DEF IInv, Shape
<1>6. OutcomeHonest'
  BY <1>1 DEF IInv, OutcomeHonest
<1>7. Untouched' /\ ExecutedOnce' /\ ScalesRequestedVersion'
  BY Zenon, <1>1 DEF IInv, Untouched, ExecutedOnce, ScalesRequestedVersion
<1>8. OneOperationPerRequest'
  BY <1>1 DEF IInv, OneOperationPerRequest
<1> QED
  BY Zenon, <1>1, <1>4, <1>5, <1>6, <1>7, <1>8 DEF IInv

\* Refusing an operation.
LEMMA RefuseStep ==
    ASSUME IInv, NEW a \in Approver, Refuse(a)
    PROVE  IInv' /\ Kept
<1>1. /\ Relies(approver[a], op, runs) /\ approver[a].pc \in {"expired", "rejected", "stale"}
      /\ approver[a].op \in Operation
  BY DEF IInv, OwnerInv, Refuse, Relies
<1>2. approver' = [approver EXCEPT ![a] = Done(IdleApprover)]
  BY Zenon DEF Refuse
<1>3. UNCHANGED <<event, version, call, runs, hit, alert, notice, policy>> /\ event \in AlertEvent
  BY Zenon DEF Refuse, world, history, IInv, Shape
<1>4. CASE UNCHANGED op
  BY Zenon, <1>2, <1>3, <1>4, Values, EndsWell, MoveOnly
<1>5. CASE UpdateAgentOperationStatus(approver[a].op, "pending_approval", approver[a].pc)
  BY Zenon, <1>1, <1>2, <1>3, <1>5, Values, EndsWell, DecideStep
<1> QED
  BY <1>4, <1>5 DEF Refuse

\* Approving it: the winner of the conditional update becomes the owner.
LEMMA ApproveStep ==
    ASSUME IInv, NEW a \in Approver, Approve(a)
    PROVE  IInv' /\ Kept
<1> DEFINE o == approver[a].op
           next == IF op[o].kind = "cleanup" THEN "mark" ELSE "execute"
           p == [approver[a] EXCEPT !.pc = next]
<1>1. /\ approver[a] \in ApproverShape /\ Relies(approver[a], op, runs) /\ approver[a].pc = "approve"
      /\ o \in Operation
  BY DEF IInv, Shape, OwnerInv, Approve, Relies
<1>2. UNCHANGED <<event, version, call, runs, hit, alert, notice, policy>> /\ event \in AlertEvent
  BY DEF Approve, world, history, IInv, Shape
<1>3. CASE approver' = [approver EXCEPT ![a] = Done(IdleApprover)] /\ UNCHANGED op
  BY Zenon, <1>2, <1>3, Values, EndsWell, MoveOnly
<1>4. CASE /\ UpdateAgentOperationStatus(o, "pending_approval", "approved")
           /\ approver' = [approver EXCEPT ![a] =
                IF op[o].status = "pending_approval" THEN p ELSE Done(IdleApprover)]
  <2>1. CASE op[o].status # "pending_approval"
    BY Zenon, <1>1, <1>2, <1>4, <2>1, Values, EndsWell, DecideStep
  <2>2. CASE op[o].status = "pending_approval"
    <3>1. p \in ApproverShape /\ p.pc \in {"mark", "execute"} /\ p.op = o /\ p.version = approver[a].version
      BY <1>1 DEF ApproverShape
    <3>2. op'[o].status = "approved" /\ op'[o].kind = op[o].kind /\ op'[o].version = op[o].version
      BY <1>1, <1>4, <2>2, CompareAndSet DEF IInv, Shape, OperationStatus
    <3>3. runs[o] = 0
      BY Zenon, <1>1, <2>2 DEF IInv, OutcomeHonest
    <3> HIDE DEF p
    <3>4. Relies(p, op', runs)
      BY <1>1, <3>1, <3>2, <3>3 DEF Relies, Working
    <3> QED
      BY Zenon, <1>1, <1>2, <1>4, <2>2, <3>1, <3>4, DecideStep
  <2> QED
    BY <2>1, <2>2
<1> QED
  BY <1>3, <1>4 DEF Approve

\* Recording the outcome: only the owner can, and it knows what happened.
LEMMA SettleStep ==
    ASSUME IInv, NEW a \in Approver, Settle(a)
    PROVE  IInv' /\ Kept
<1> DEFINE o == approver[a].op
           to == IF approver[a].ok THEN "succeeded" ELSE "failed"
           p == IF op[o].kind = "cleanup" THEN [approver[a] EXCEPT !.pc = "report"] ELSE Done(IdleApprover)
<1>1. /\ approver[a] \in ApproverShape /\ Relies(approver[a], op, runs) /\ approver[a].pc = "settle"
      /\ o \in Operation /\ op[o].status = "approved"
      /\ runs[o] <= 1 /\ (approver[a].ok => runs[o] = 1)
  BY DEF IInv, Shape, OwnerInv, Settle, Relies, Working
<1>2. /\ UNCHANGED <<event, version, call, runs, hit, alert, notice, policy>> /\ event \in AlertEvent
      /\ approver' = [approver EXCEPT ![a] = p]
  BY DEF Settle, world, history, IInv, Shape
<1>3. p \in ApproverShape /\ p.pc \in {"report", "done"} /\ (p.pc = "report" => p.op = o)
  BY <1>1, Values DEF ApproverShape
<1> HIDE DEF p
<1>4. CASE UNCHANGED op
  <2>1. Relies(p, op, runs)
    BY Zenon, <1>1, <1>3 DEF Relies, Working
  <2> QED
    BY Zenon, <1>2, <1>3, <1>4, <2>1, MoveOnly DEF Working
<1>5. CASE UpdateAgentOperationStatus(o, "approved", to)
  <2>1. /\ op' \in [Operation -> OperationShape] /\ Kept
        /\ \A x \in Operation : op'[x] # op[x] => x = o
        /\ op'[o].status = to
        /\ \A x \in Operation : /\ op'[x].kind = op[x].kind /\ op'[x].key = op[x].key
                                /\ op'[x].version = op[x].version
                                /\ op'[x].status = "none" <=> op[x].status = "none"
    BY <1>1, <1>5, CompareAndSet DEF IInv, Shape, OperationStatus
  <2>2. \A b \in Approver \ {a} : approver[b].pc \in Working => approver[b].op # o
    BY Zenon, <1>1 DEF IInv, OwnerInv, OneOwner, Working
  <2>3. \A b \in Approver \ {a} : Relies(approver[b], op', runs')
    BY <1>2, <2>1, <2>2 DEF IInv, OwnerInv, Relies, Working
  <2>4. Relies(p, op', runs')
    BY Zenon, <1>1, <1>3, <2>1 DEF Relies, Working
  <2>5. OwnerInv' /\ approver' \in [Approver -> ApproverShape]
    BY Zenon, <1>2, <1>3, <2>3, <2>4, OwnerStep DEF Working
  <2>6. Shape'
    BY Zenon, <1>2, <2>1, <2>5 DEF IInv, Shape
  <2>7. OutcomeHonest'
    BY <1>1, <1>2, <2>1 DEF IInv, OutcomeHonest
  <2>8. Untouched' /\ ExecutedOnce' /\ ScalesRequestedVersion' /\ OneOperationPerRequest'
    BY <1>2, <2>1 DEF IInv, Untouched, ExecutedOnce, ScalesRequestedVersion, OneOperationPerRequest
  <2> QED
    BY Zenon, <2>1, <2>5, <2>6, <2>7, <2>8 DEF IInv
<1> QED
  BY Zenon, <1>4, <1>5 DEF Settle

\* The effect: the owner starts it for the first time, on the Deployment version
\* the operation was requested against.
LEMMA ExecuteStep ==
    ASSUME IInv, NEW a \in Approver, Execute(a)
    PROVE  IInv' /\ Kept
<1> DEFINE o == approver[a].op
<1>1. /\ approver[a] \in ApproverShape /\ approver[a].pc = "execute"
      /\ o \in Operation /\ op[o].status = "approved" /\ runs[o] = 0
      /\ op[o].kind = "scale" => approver[a].version = op[o].version
  BY DEF IInv, Shape, OwnerInv, Execute, Relies, Working
<1>2. PICK ok \in BOOLEAN, reached \in BOOLEAN :
        /\ ok => reached
        /\ reached /\ op[o].kind = "scale" => UpdateDeploymentAccepted(a)
        /\ approver' = [approver EXCEPT ![a] = [@ EXCEPT !.pc = "settle", !.ok = ok]]
        /\ runs' = [runs EXCEPT ![o] = IF reached THEN @ + 1 ELSE @]
        /\ IF reached /\ op[o].kind = "scale"
           THEN /\ hit' = [hit EXCEPT ![o] = @ \cup {version["scale"]}]
                /\ version' = [version EXCEPT !["scale"] = @ + 1]
           ELSE UNCHANGED <<hit, version>>
  BY Zenon DEF Execute
<1>3. UNCHANGED <<op, event, call, alert, notice, policy>>
  BY DEF Execute
<1> DEFINE p == [approver[a] EXCEPT !.pc = "settle", !.ok = ok]
<1>4. p \in ApproverShape /\ p.pc = "settle" /\ p.op = o /\ p.ok = ok
  BY Zenon, <1>1 DEF ApproverShape
<1>5. approver' = [approver EXCEPT ![a] = p]
  BY <1>2
<1>6. /\ runs' \in [Operation -> Nat]
      /\ runs'[o] = IF reached THEN 1 ELSE 0
      /\ \A x \in Operation \ {o} : runs'[x] = runs[x]
  BY <1>1, <1>2 DEF IInv, Shape
<1>7. /\ version' \in [{"scale", "pull"} -> Nat]
      /\ hit' \in [Operation -> SUBSET Nat]
      /\ \A x \in Operation : hit'[x] = hit[x] \/ (x = o /\ hit'[x] = hit[x] \cup {op[o].version})
  <2>1. CASE reached /\ op[o].kind = "scale"
    <3>1. version["scale"] = op[o].version /\ version["scale"] \in Nat
      BY <1>1, <1>2, <2>1 DEF UpdateDeploymentAccepted, IInv, Shape
    <3>2. hit' = [hit EXCEPT ![o] = hit[o] \cup {version["scale"]}]
      BY <1>2, <2>1
    <3>3. version' = [version EXCEPT !["scale"] = version["scale"] + 1]
      BY <1>2, <2>1
    <3>4. version' \in [{"scale", "pull"} -> Nat]
      BY <3>1, <3>3 DEF IInv, Shape
    <3>5. hit[o] \cup {version["scale"]} \in SUBSET Nat
      BY <1>1, <3>1 DEF IInv, Shape
    <3>6. hit \in [Operation -> SUBSET Nat]
      BY DEF IInv, Shape
    <3> QED
      BY <1>1, <3>1, <3>2, <3>4, <3>5, <3>6
  <2>2. CASE ~(reached /\ op[o].kind = "scale")
    BY Zenon, <1>2, <2>2 DEF IInv, Shape
  <2> QED
    BY Zenon, <2>1, <2>2
<1> HIDE DEF p
<1>8. \A b \in Approver \ {a} : approver[b].pc \in Working => approver[b].op # o
  BY Zenon, <1>1 DEF IInv, OwnerInv, OneOwner, Working
<1>9. \A b \in Approver \ {a} : Relies(approver[b], op', runs')
  BY <1>3, <1>6, <1>8 DEF IInv, OwnerInv, Relies, Working
<1>10. Relies(p, op', runs')
  BY <1>1, <1>2, <1>3, <1>4, <1>6 DEF Relies, Working
<1>11. OwnerInv' /\ approver' \in [Approver -> ApproverShape]
  BY Zenon, <1>4, <1>5, <1>8, <1>9, <1>10, OwnerStep
<1>12. Shape'
  BY Zenon, <1>3, <1>6, <1>7, <1>11 DEF IInv, Shape
<1>13. ExecutedOnce' /\ OutcomeHonest'
  BY <1>1, <1>3, <1>6 DEF IInv, ExecutedOnce, OutcomeHonest
<1>14. ScalesRequestedVersion'
  BY <1>3, <1>7 DEF IInv, ScalesRequestedVersion
<1>15. Untouched'
  BY <1>1, <1>3, <1>7 DEF IInv, Untouched
<1> QED
  BY Zenon, <1>3, <1>11, <1>12, <1>13, <1>14, <1>15 DEF IInv, OneOperationPerRequest, Kept

\* A new operation has no owner and no history.
LEMMA CreateStep ==
    ASSUME IInv, NEW c \in Call, CreateAgentOperation(c)
    PROVE  IInv' /\ Kept
<1>1. Shape' /\ UNCHANGED <<approver, runs, hit>>
  BY Zenon, CreateEffect DEF IInv
<1>2. CASE UNCHANGED op
  BY <1>1, <1>2 DEF IInv, OwnerInv, OneOwner, Untouched, ExecutedOnce, OutcomeHonest,
                    ScalesRequestedVersion, OneOperationPerRequest, Kept
<1>3. ASSUME NEW o \in Operation, NEW row \in OperationShape,
             op[o].status = "none", row.status = "pending_approval",
             op' = [op EXCEPT ![o] = row], Stored(row.key) = {}
      PROVE  IInv' /\ Kept
  <2>1. op'[o] = row /\ \A x \in Operation \ {o} : op'[x] = op[x]
    BY <1>3 DEF IInv, Shape
  <2>2. Kept
    BY Zenon, <1>3, <2>1 DEF Kept
  <2>3. \A a \in Approver : Relies(approver'[a], op', runs')
    BY <1>1, <1>3, <2>1 DEF IInv, OwnerInv, Relies, Working
  <2>4. OneOwner'
    BY Zenon, <1>1 DEF IInv, OwnerInv, OneOwner
  <2>5. OutcomeHonest' /\ ExecutedOnce'
    BY Zenon, <1>1, <1>3, <2>1 DEF IInv, OutcomeHonest, ExecutedOnce
  <2>6. ScalesRequestedVersion' /\ Untouched'
    BY Zenon, <1>1, <1>3, <2>1 DEF IInv, ScalesRequestedVersion, Untouched
  <2>7. OneOperationPerRequest'
    <3>1. \A x \in Operation : op[x].status # "none" => op[x].key # row.key
      BY Zenon, <1>3 DEF Stored
    <3> QED
      BY <2>1, <3>1 DEF IInv, OneOperationPerRequest
  <2> QED
    BY <1>1, <2>2, <2>3, <2>4, <2>5, <2>6, <2>7 DEF IInv, OwnerInv
<1>4. \/ UNCHANGED op
      \/ \E o \in Operation, row \in OperationShape :
           /\ op[o].status = "none" /\ row.status = "pending_approval"
           /\ op' = [op EXCEPT ![o] = row]
           /\ Stored(row.key) = {}
  BY Zenon, CreateEffect DEF IInv
<1> QED
  BY <1>2, <1>3, <1>4

\* Steps that leave operations, approvers and history alone.
LEMMA OtherStep ==
    ASSUME IInv, Shape', UNCHANGED <<op, approver, runs, hit>>
    PROVE  IInv' /\ Kept
BY DEF IInv, OwnerInv, OneOwner, Untouched, ExecutedOnce, OutcomeHonest,
       ScalesRequestedVersion, OneOperationPerRequest, Kept

\* Time runs out for an operation: only its lateness changes.
LEMMA LateStep ==
    ASSUME IInv, NEW o \in Operation, BecomesLate(o)
    PROVE  IInv' /\ Kept
<1> DEFINE row == [op[o] EXCEPT !.late = TRUE]
<1>1. op \in [Operation -> OperationShape] /\ op[o] \in OperationShape
  BY DEF IInv, Shape
<1>2. /\ row \in OperationShape /\ row.status = op[o].status /\ row.kind = op[o].kind
      /\ row.key = op[o].key /\ row.version = op[o].version
  BY Zenon, <1>1 DEF OperationShape
<1>3. op' = [op EXCEPT ![o] = row]
  BY DEF BecomesLate
<1>4. UNCHANGED <<event, version, call, approver, runs, hit, alert, notice, policy>>
  BY DEF BecomesLate, world, history
<1> HIDE DEF row
<1>5. \A x \in Operation : /\ op'[x].status = op[x].status /\ op'[x].kind = op[x].kind
                           /\ op'[x].key = op[x].key /\ op'[x].version = op[x].version
  BY <1>1, <1>2, <1>3
<1>6. Shape'
  BY Zenon, <1>1, <1>2, <1>3, <1>4 DEF IInv, Shape
<1>7. OwnerInv'
  BY <1>4, <1>5 DEF IInv, OwnerInv, OneOwner, Relies, Working
<1> QED
  BY <1>4, <1>5, <1>6, <1>7 DEF IInv, Untouched, ExecutedOnce, OutcomeHonest,
                                ScalesRequestedVersion, OneOperationPerRequest, Kept

\* A restart leaves no approver at work.
LEMMA RestartStep ==
    ASSUME IInv, Restart
    PROVE  IInv' /\ Kept
<1>1. UNCHANGED <<op, event, version, runs, hit, alert, policy>>
  BY Zenon DEF Restart, world, history
<1>2. \A a \in Approver : approver'[a] = IF approver[a].pc = "idle" THEN approver[a] ELSE Done(IdleApprover)
  BY Zenon DEF Restart
<1>3. approver' \in [Approver -> ApproverShape]
  BY Zenon, Values DEF Restart, IInv, Shape
<1>4. call' \in [Call -> CallShape] /\ notice' \in [Notice -> NoticeState]
  BY Values DEF Restart, IInv, Shape
<1>5. Shape'
  BY Zenon, <1>1, <1>3, <1>4 DEF IInv, Shape
<1>6. \A a \in Approver : Relies(approver'[a], op, runs) /\ approver'[a].pc \notin Working
  BY <1>2, EndsWell DEF IInv, OwnerInv, Working
<1>7. OwnerInv'
  BY <1>1, <1>6 DEF OwnerInv, OneOwner
<1> QED
  BY <1>1, <1>5, <1>7 DEF IInv, Untouched, ExecutedOnce, OutcomeHonest,
                          ScalesRequestedVersion, OneOperationPerRequest, Kept

\* The surroundings keep the shape.
LEMMA WorldStep ==
    ASSUME IInv, DisablePolicy \/ AlertTurns \/ NodeRemoved
                 \/ \E kind \in {"scale", "pull"} : OthersChange(kind)
    PROVE  IInv' /\ Kept
<1>1. UNCHANGED <<op, event, call, approver, notice, runs, hit>>
  BY Zenon DEF DisablePolicy, AlertTurns, NodeRemoved, OthersChange, world, history
<1>2. alert' \in {"firing", "resolved"} /\ policy' \in BOOLEAN
  BY Zenon DEF DisablePolicy, AlertTurns, NodeRemoved, OthersChange, world, history, IInv, Shape
<1>3. version' \in [{"scale", "pull"} -> Nat]
  <2>1. ASSUME NEW kind \in {"scale", "pull"}, OthersChange(kind)
        PROVE  version' \in [{"scale", "pull"} -> Nat]
    BY <2>1 DEF OthersChange, IInv, Shape
  <2> QED
    BY Zenon, <2>1 DEF DisablePolicy, AlertTurns, NodeRemoved, world, history, IInv, Shape
<1>4. Shape'
  BY Zenon, <1>1, <1>2, <1>3 DEF IInv, Shape
<1> QED
  BY Zenon, <1>1, <1>4, OtherStep

-----------------------------------------------------------------------------
\* The inductive invariant holds initially: no operation exists, nobody is at work.
LEMMA IInvInit == Init => IInv
<1> SUFFICES ASSUME Init PROVE IInv
  OBVIOUS
<1> DEFINE row == [status |-> "none", kind |-> "scale", key |-> None, version |-> 0, late |-> FALSE]
<1>1. row \in OperationShape /\ row.status = "none"
  BY Zenon DEF OperationShape, OperationStatus, Kind
<1>2. op = [o \in Operation |-> row]
  BY Zenon DEF Init
<1> HIDE DEF row
<1>3. Shape
  BY Zenon, <1>1, <1>2, Values DEF Init, Shape
<1>4. \A a \in Approver : approver[a].pc = "idle"
  BY Zenon DEF Init, IdleApprover
<1>5. OwnerInv
  BY Zenon, <1>4 DEF OwnerInv, OneOwner, Relies, Working
<1>6. \A o \in Operation : op[o].status = "none" /\ runs[o] = 0 /\ hit[o] = {}
  BY <1>1, <1>2 DEF Init
<1> QED
  BY <1>3, <1>5, <1>6 DEF IInv, Untouched, ExecutedOnce, OutcomeHonest,
                          ScalesRequestedVersion, OneOperationPerRequest

\* Every step keeps the inductive invariant and what is written in the rows.
LEMMA IInvStep == IInv /\ [Next]_vars => IInv' /\ Kept
<1> SUFFICES ASSUME IInv, [Next]_vars PROVE IInv' /\ Kept
  OBVIOUS
<1>1. ASSUME NEW c \in Call,
             (\E k \in Key : RequestCleanup(c, k) \/ \E kind \in {"scale", "pull"} : RequestChange(c, kind, k))
                 \/ LinkEvent(c)
      PROVE  IInv' /\ Kept
  BY <1>1, CallShapes, OtherStep DEF IInv
<1>2. ASSUME NEW c \in Call, CreateAgentOperation(c) PROVE IInv' /\ Kept
  BY <1>2, CreateStep
<1>3. ASSUME NEW a \in Approver, NEW o \in Operation, NEW approve \in BOOLEAN, Resolve(a, o, approve)
      PROVE  IInv' /\ Kept
  BY Zenon, <1>3, ResolveStep
<1>4. ASSUME NEW a \in Approver, ApproverStep(a) PROVE IInv' /\ Kept
  BY Zenon, <1>4, InspectStep, RefuseStep, ApproveStep, MarkReportStep, ExecuteStep, SettleStep DEF ApproverStep
<1>5. ASSUME NEW n \in Notice, Notify(n) \/ EnablePolicy(n) \/ NoticeStep(n) PROVE IInv' /\ Kept
  BY <1>5, NoticeEffect, OtherStep DEF IInv
<1>6. ASSUME NEW o \in Operation, BecomesLate(o) PROVE IInv' /\ Kept
  BY <1>6, LateStep
<1>7. CASE Restart
  BY <1>7, RestartStep
<1>8. CASE DisablePolicy \/ AlertTurns \/ NodeRemoved \/ \E kind \in {"scale", "pull"} : OthersChange(kind)
  BY Zenon, <1>8, WorldStep
<1>9. CASE UNCHANGED vars
  <2>1. Shape'
    BY <1>9 DEF vars, IInv, Shape
  <2> QED
    BY Zenon, <1>9, <2>1, OtherStep DEF vars
<1> QED
  BY Zenon, <1>1, <1>2, <1>3, <1>4, <1>5, <1>6, <1>7, <1>8, <1>9 DEF Next, CallStep

\* The inductive invariant always holds.
LEMMA IInvAlways == Spec => []IInv
<1>1. IInv /\ [Next]_vars => IInv'
  BY IInvStep
<1> QED
  BY IInvInit, <1>1, PTL DEF Spec

-----------------------------------------------------------------------------
\* What a step may do to the status of an operation.
Decided ==
    \A o \in Operation :
        /\ AgentOperationTerminal(op[o].status) => op'[o].status = op[o].status
        /\ op'[o].status \in {"succeeded", "failed"} /\ op[o].status # op'[o].status =>
             op[o].status = "approved"

\* Every status is written by a conditional update that names the status before.
LEMMA DecidedStep == IInv /\ [Next]_vars => Decided
<1> SUFFICES ASSUME IInv, [Next]_vars PROVE Decided
  OBVIOUS
<1>0. op \in [Operation -> OperationShape]
  BY Zenon DEF IInv, Shape
<1>1. CASE UNCHANGED op
  BY Zenon, <1>1 DEF Decided
<1>2. ASSUME NEW c \in Call, CreateAgentOperation(c) PROVE Decided
  <2>1. ASSUME NEW o \in Operation, NEW row \in OperationShape,
               op[o].status = "none", row.status = "pending_approval", op' = [op EXCEPT ![o] = row]
        PROVE  Decided
    <3>1. op'[o] = row /\ \A x \in Operation \ {o} : op'[x] = op[x]
      BY Zenon, <1>0, <2>1
    <3> QED
      BY Zenon, <2>1, <3>1 DEF Decided, AgentOperationTerminal
  <2> QED
    BY Zenon, <1>1, <1>2, <2>1, CreateEffect DEF IInv
<1>3. ASSUME NEW o \in Operation, NEW from \in {"pending_approval", "approved"},
             NEW to \in OperationStatus \ {"none"}, UpdateAgentOperationStatus(o, from, to),
             to \in {"succeeded", "failed"} => from = "approved"
      PROVE  Decided
  <2>1. from \in OperationStatus \ {"none"}
    BY Zenon DEF OperationStatus
  <2>2. \A x \in Operation : op'[x] # op[x] => op[x].status = from /\ op'[x].status = to
    BY <1>0, <1>3, <2>1, CompareAndSet
  <2> QED
    BY <1>3, <2>2 DEF Decided, AgentOperationTerminal
<1>4. ASSUME NEW a \in Approver, Refuse(a) PROVE Decided
  <2>1. approver[a].op \in Operation /\ approver[a].pc \in {"expired", "rejected", "stale"}
    BY <1>4 DEF IInv, OwnerInv, Relies, Refuse
  <2>2. approver[a].pc \in OperationStatus \ {"none"} /\ approver[a].pc \notin {"succeeded", "failed"}
    BY <2>1 DEF OperationStatus
  <2> QED
    BY Zenon, <1>1, <1>3, <1>4, <2>1, <2>2 DEF Refuse
<1>5. ASSUME NEW a \in Approver, Approve(a) PROVE Decided
  <2>1. approver[a].op \in Operation
    BY <1>5 DEF IInv, OwnerInv, Relies, Approve
  <2>2. "approved" \in OperationStatus \ {"none"}
    BY DEF OperationStatus
  <2> QED
    BY Zenon, <1>1, <1>3, <1>5, <2>1, <2>2 DEF Approve
<1>6. ASSUME NEW a \in Approver, Settle(a) PROVE Decided
  <2>1. approver[a].op \in Operation
    BY <1>6 DEF IInv, OwnerInv, Relies, Settle
  <2>2. {"succeeded", "failed"} \subseteq OperationStatus \ {"none"}
    BY Zenon DEF OperationStatus
  <2> QED
    BY Zenon, <1>1, <1>3, <1>6, <2>1, <2>2 DEF Settle
<1>7. ASSUME NEW o \in Operation, BecomesLate(o) PROVE Decided
  <2>1. op[o] \in OperationShape /\ op' = [op EXCEPT ![o] = [op[o] EXCEPT !.late = TRUE]]
    BY <1>0, <1>7 DEF BecomesLate
  <2>2. [op[o] EXCEPT !.late = TRUE].status = op[o].status
    BY <2>1 DEF OperationShape
  <2>3. \A x \in Operation : op'[x].status = op[x].status
    BY <1>0, <2>1, <2>2
  <2> QED
    BY <2>3 DEF Decided
<1> QED
  BY Zenon, <1>1, <1>2, <1>4, <1>5, <1>6, <1>7
     DEF Next, CallStep, ApproverStep, NoticeStep, RequestChange, RequestCleanup, LinkEvent, Resolve, Inspect,
         InspectFails, MarkRemediating, Execute, Report, Notify, EnablePolicy, Upsert, MarkAnalyzing, Dispatch,
         EndChat, DisablePolicy, AlertTurns, OthersChange, NodeRemoved, Restart, vars

-----------------------------------------------------------------------------
\* An approved operation is executed at most once, however many administrators
\* resolve it at the same time (AgentOperationHandler.resolve).
THEOREM Once == Spec => []ExecutedOnce
<1>1. IInv => ExecutedOnce
  BY DEF IInv
<1> QED
  BY <1>1, IInvAlways, PTL

\* A recorded outcome is true: what was refused did not run, what is recorded as
\* succeeded did.
THEOREM Honest == Spec => []OutcomeHonest
<1>1. IInv => OutcomeHonest
  BY DEF IInv
<1> QED
  BY <1>1, IInvAlways, PTL

\* A Deployment is scaled only from the version the request was made against.
THEOREM RequestedVersion == Spec => []ScalesRequestedVersion
<1>1. IInv => ScalesRequestedVersion
  BY DEF IInv
<1> QED
  BY <1>1, IInvAlways, PTL

\* CreateAgentOperation stores one operation per idempotency key.
THEOREM Idempotent == Spec => []OneOperationPerRequest
<1>1. IInv => OneOperationPerRequest
  BY DEF IInv
<1> QED
  BY <1>1, IInvAlways, PTL

\* A decision is final, and only an approved operation gets an outcome
\* (UpdateAgentOperationStatus).
THEOREM Final == Spec => DecidedForGood
<1>1. IInv /\ [Next]_vars => [Decided]_vars
  BY DecidedStep
<1>2. [][Decided]_vars => DecidedForGood
  BY PTL DEF DecidedForGood, Decided
<1> QED
  BY <1>1, <1>2, IInvAlways, PTL DEF Spec

-----------------------------------------------------------------------------
\* A row of an alert that fires, whatever the automation has made of it.
Live(row) == row.status \notin {"none", "resolved"} /\ ~row.ended

CopyOK(row) == row = NoEvent \/ Live(row)

\* What a request of the Runtime, an approver and a notification carry.
CallOK(k) ==
    /\ k.version \in Versions /\ CopyOK(k.copy)
    /\ k.pc = "link" => k.kind = "cleanup"
    /\ k.pc \in {"create", "link"} /\ k.kind = "cleanup" => Live(k.copy)

Bound == {"approve", "mark", "execute", "settle", "report"}

ApproverOK(p, rows) ==
    /\ p.version \in Versions /\ CopyOK(p.copy)
    /\ p.pc \in {"mark", "report"} => rows[p.op].kind = "cleanup"
    /\ p.pc \in Bound /\ rows[p.op].kind = "cleanup" => Live(p.copy)

NoticeOK(q) ==
    /\ CopyOK(q.copy)
    /\ q.pc \in {"mark", "dispatch", "chat"} => Live(q.copy)
    /\ q.pc \in {"dispatch", "chat"} => q.copy.status = "analyzing"

Carried ==
    /\ \A c \in Call : CallOK(call[c])
    /\ \A a \in Approver : ApproverOK(approver[a], op)
    /\ \A n \in Notice : NoticeOK(notice[n])

-----------------------------------------------------------------------------
\* Versions are counted: a version is written by others, which is a surprise, or
\* by an operation that runs, which it does once.
Ran == {o \in Operation : runs[o] # 0}

Counted ==
    /\ surprises \in 0..MaxSurprises
    /\ \A k \in {"scale", "pull"} : version[k] <= surprises + Cardinality(Ran)
    /\ \A o \in Operation : op[o].version \in Versions /\ hit[o] \subseteq Versions

Flags ==
    /\ managed \in BOOLEAN /\ crossed \in BOOLEAN /\ switched \in BOOLEAN /\ trouble \in BOOLEAN
    /\ heard \in {"none", "firing", "resolved"}

\* The alert's row and the copies of it.
Tracked ==
    /\ event.ended <=> event.status = "resolved"
    /\ event.status = "none" =>
         /\ ~HoldsCopy
         /\ \A o \in Operation : op[o].status # "none" => op[o].kind # "cleanup"
    /\ ~crossed /\ HoldsCopy => heard # "resolved"
    /\ ~crossed /\ heard # "none" => (event.status = "resolved" <=> heard = "resolved")

\* Who works on what shows as being worked on.
Owns(a, o) == approver[a].op = o /\ approver[a].pc \in Working
Repairs(a) ==
    approver[a].pc \in {"execute", "settle", "report"} /\ op[approver[a].op].kind = "cleanup"
Analyses(n) == notice[n].pc \in {"dispatch", "chat"}

Owned ==
    /\ policy \/ switched
    /\ ~trouble =>
         /\ \A o \in Operation : op[o].status = "approved" => \E a \in Approver : Owns(a, o)
         /\ event.status = "remediating" => \E a \in Approver : Repairs(a)
         /\ event.status = "analyzing" /\ ~switched => \E n \in Notice : Analyses(n)

AInv == Carried /\ Counted /\ Flags /\ Tracked /\ Owned

-----------------------------------------------------------------------------
\* A save of a copy: the alert still fires in the row it leaves.
LEMMA Saved ==
    ASSUME NEW row \in AlertEvent, Live(row), NEW s \in EventStatus \ {"none", "resolved"}
    PROVE  /\ Live([row EXCEPT !.status = s]) /\ [row EXCEPT !.status = s].status = s
           /\ Live([row EXCEPT !.status = s, !.dispatched = TRUE])
           /\ [row EXCEPT !.status = s, !.dispatched = TRUE].status = s
BY Zenon DEF AlertEvent, Live

\* A live row is a row.
LEMMA LiveRow == ASSUME NEW row, Live(row) PROVE row # NoEvent /\ CopyOK(row)
BY DEF Live, NoEvent, CopyOK

\* Processes that have ended carry nothing.
LEMMA Ended ==
    /\ 0 \in Versions
    /\ CallOK(IdleCall) /\ CallOK(Done(IdleCall)) /\ Done(IdleCall).copy = NoEvent
    /\ NoticeOK(IdleNotice) /\ NoticeOK(Done(IdleNotice)) /\ Done(IdleNotice).copy = NoEvent
    /\ \A rows : ApproverOK(IdleApprover, rows) /\ ApproverOK(Done(IdleApprover), rows)
    /\ Done(IdleApprover).copy = NoEvent /\ Done(IdleApprover).pc = "done"
    /\ Done(IdleNotice).pc = "done"
<1>1. 0 \in Versions
  BY FS_CardinalityType, ConstantsAssumption DEF Versions
<1> QED
  BY <1>1 DEF CallOK, NoticeOK, ApproverOK, IdleCall, IdleNotice, IdleApprover, Done, CopyOK, Bound

\* What has run is bounded by the operations there are.
LEMMA RanBound ==
    /\ IsFiniteSet(Ran) /\ Cardinality(Ran) \in Nat
    /\ Cardinality(Operation) \in Nat /\ Cardinality(Ran) <= Cardinality(Operation)
<1>1. IsFiniteSet(Operation) /\ Ran \subseteq Operation
  BY ConstantsAssumption DEF Ran
<1> QED
  BY <1>1, FS_Subset, FS_CardinalityType

\* The versions of the targets stay in Versions.
LEMMA VersionFits ==
    ASSUME Shape, Counted, NEW k \in {"scale", "pull"}
    PROVE  version[k] \in Versions
BY RanBound, ConstantsAssumption DEF Shape, Counted, Versions

-----------------------------------------------------------------------------
\* A row keeps its version, or is the one CreateAgentOperation inserts, with the
\* version and the kind of the request.
LEMMA RowStep ==
    ASSUME IInv, [Next]_vars, NEW o \in Operation
    PROVE  \/ /\ op'[o].version = op[o].version /\ op'[o].kind = op[o].kind
              /\ op'[o].status = "none" <=> op[o].status = "none"
           \/ \E c \in Call :
                /\ CreateAgentOperation(c) /\ call[c].pc = "create"
                /\ op'[o].version = call[c].version /\ op'[o].kind = call[c].kind
                /\ op[o].status = "none" /\ op'[o].status = "pending_approval"
<1> DEFINE Same == /\ op'[o].version = op[o].version /\ op'[o].kind = op[o].kind
                   /\ op'[o].status = "none" <=> op[o].status = "none"
           Goal == Same \/ \E c \in Call :
                /\ CreateAgentOperation(c) /\ call[c].pc = "create"
                /\ op'[o].version = call[c].version /\ op'[o].kind = call[c].kind
                /\ op[o].status = "none" /\ op'[o].status = "pending_approval"
<1>0. op \in [Operation -> OperationShape]
  BY DEF IInv, Shape
<1>1. CASE UNCHANGED op
  BY Zenon, <1>1
<1>2. ASSUME NEW c \in Call, CreateAgentOperation(c) PROVE Goal
  <2> DEFINE new == [status |-> "pending_approval", kind |-> call[c].kind,
                     key |-> call[c].key, version |-> call[c].version, late |-> FALSE]
  <2>1. UNCHANGED op \/ \E x \in Operation : op[x].status = "none" /\ op' = [op EXCEPT ![x] = new]
    BY Zenon, <1>2 DEF CreateAgentOperation
  <2>2. ASSUME NEW x \in Operation, op[x].status = "none", op' = [op EXCEPT ![x] = new] PROVE Goal
    <3>1. new.status = "pending_approval" /\ new.kind = call[c].kind /\ new.version = call[c].version
      OBVIOUS
    <3> HIDE DEF new
    <3>2. op'[o] = IF o = x THEN new ELSE op[o]
      BY <1>0, <2>2
    <3>3. call[c].pc = "create"
      BY Zenon, <1>2 DEF CreateAgentOperation
    <3> QED
      BY <1>2, <2>2, <3>1, <3>2, <3>3
  <2> QED
    BY <1>1, <2>1, <2>2
<1>3. ASSUME NEW x \in Operation, NEW from \in OperationStatus \ {"none"},
             NEW to \in OperationStatus \ {"none"}, UpdateAgentOperationStatus(x, from, to)
      PROVE  Goal
  BY <1>0, <1>3, CompareAndSet
<1>4. {"pending_approval", "approved", "expired", "rejected", "stale", "succeeded", "failed"}
        \subseteq OperationStatus \ {"none"}
  BY Zenon DEF OperationStatus
<1>5. ASSUME NEW a \in Approver, Refuse(a) \/ Approve(a) \/ Settle(a) PROVE Goal
  <2>1. approver[a].op \in Operation
    BY Zenon, <1>5 DEF IInv, OwnerInv, Relies, Refuse, Approve, Settle
  <2>2. CASE Refuse(a)
    BY Zenon, <1>1, <1>3, <1>4, <2>1, <2>2 DEF Refuse
  <2>3. CASE Approve(a)
    BY Zenon, <1>1, <1>3, <1>4, <2>1, <2>3 DEF Approve
  <2>4. CASE Settle(a)
    BY Zenon, <1>1, <1>3, <1>4, <2>1, <2>4 DEF Settle
  <2> QED
    BY Zenon, <1>5, <2>2, <2>3, <2>4
<1>6. ASSUME NEW x \in Operation, BecomesLate(x) PROVE Goal
  <2> DEFINE new == [op[x] EXCEPT !.late = TRUE]
  <2>1. op[x] \in OperationShape /\ op' = [op EXCEPT ![x] = new]
    BY <1>0, <1>6 DEF BecomesLate
  <2>2. new.status = op[x].status /\ new.kind = op[x].kind /\ new.version = op[x].version
    BY <2>1 DEF OperationShape
  <2> HIDE DEF new
  <2> QED
    BY <1>0, <2>1, <2>2
<1> QED
  BY Zenon, <1>1, <1>2, <1>5, <1>6
     DEF Next, CallStep, ApproverStep, NoticeStep, RequestChange, RequestCleanup, LinkEvent, Resolve, Inspect,
         InspectFails, MarkRemediating, Execute, Report, Notify, EnablePolicy, Upsert, MarkAnalyzing, Dispatch,
         EndChat, DisablePolicy, AlertTurns, OthersChange, NodeRemoved, Restart, vars

\* A step that is neither an execution nor somebody else's change leaves what is
\* counted alone, but for a surprise.
LEMMA QuietStep ==
    ASSUME [Next]_vars, \A a \in Approver : ~Execute(a), \A kind \in {"scale", "pull"} : ~OthersChange(kind)
    PROVE  UNCHANGED <<version, runs, hit>> /\ (UNCHANGED surprises \/ Surprise)
BY Zenon DEF Next, CallStep, ApproverStep, NoticeStep, RequestChange, RequestCleanup, CreateAgentOperation, LinkEvent,
       Resolve, Inspect, InspectFails, Refuse, Approve, MarkRemediating, Settle, Report, Notify, EnablePolicy,
       Upsert, MarkAnalyzing, Dispatch, EndChat, DisablePolicy, AlertTurns, BecomesLate, NodeRemoved, Restart,
       SaveEvent, TroubleOccurs, world, history, vars

\* An execution writes one version more, and its operation had not run.
LEMMA ExecuteCount ==
    ASSUME IInv, AInv, NEW a \in Approver, Execute(a)
    PROVE  /\ UNCHANGED surprises
           /\ \A k \in {"scale", "pull"} : version'[k] <= surprises + Cardinality(Ran)'
           /\ \A o \in Operation : hit'[o] \subseteq Versions
<1> DEFINE o == approver[a].op
<1>1. o \in Operation /\ runs[o] = 0
  BY Zenon DEF Execute, IInv, OwnerInv, Relies
<1>2. runs \in [Operation -> Nat] /\ hit \in [Operation -> SUBSET Nat] /\ version \in [{"scale", "pull"} -> Nat]
  BY Zenon DEF IInv, Shape
<1>3. PICK ok \in BOOLEAN, reached \in BOOLEAN :
        /\ runs' = [runs EXCEPT ![o] = IF reached THEN @ + 1 ELSE @]
        /\ IF reached /\ op[o].kind = "scale"
           THEN /\ hit' = [hit EXCEPT ![o] = @ \cup {version["scale"]}]
                /\ version' = [version EXCEPT !["scale"] = @ + 1]
           ELSE UNCHANGED <<hit, version>>
  BY Zenon DEF Execute
<1>4. UNCHANGED surprises
  BY Zenon DEF Execute
<1>5. version["scale"] \in Versions
  BY VersionFits DEF IInv, AInv
<1>6. \A x \in Operation : hit'[x] \subseteq Versions
  BY <1>1, <1>2, <1>3, <1>5 DEF AInv, Counted
<1>7. \A k \in {"scale", "pull"} : version[k] <= surprises + Cardinality(Ran)
  BY DEF AInv, Counted
<1>8. surprises \in Nat
  BY DEF AInv, Counted
<1>9. CASE reached
  <2>1. Ran' = Ran \cup {o} /\ o \notin Ran
    BY <1>1, <1>2, <1>3, <1>9 DEF Ran
  <2>2. Cardinality(Ran)' = Cardinality(Ran) + 1
    BY Zenon, <2>1, RanBound, FS_AddElement
  <2>3. \A k \in {"scale", "pull"} : version'[k] <= version[k] + 1
    BY <1>2, <1>3
  <2>4. \A k \in {"scale", "pull"} : version'[k] \in Nat
    BY <1>2, <1>3
  <2> QED
    BY <1>2, <1>4, <1>6, <1>7, <1>8, <2>2, <2>3, <2>4, RanBound
<1>10. CASE ~reached
  <2>1. UNCHANGED <<runs, version>>
    BY <1>2, <1>3, <1>10
  <2>2. Ran' = Ran
    BY <2>1 DEF Ran
  <2> QED
    BY Zenon, <1>4, <1>6, <1>7, <2>1, <2>2
<1> QED
  BY <1>9, <1>10

\* Every step keeps the count.
LEMMA CountedStep ==
    ASSUME IInv, AInv, [Next]_vars
    PROVE  Counted'
<1>1. \A o \in Operation : op'[o].version \in Versions
  BY Zenon, RowStep DEF AInv, Counted, Carried, CallOK
<1>2. version \in [{"scale", "pull"} -> Nat] /\ surprises \in 0..MaxSurprises /\ MaxSurprises \in Nat
  BY Zenon, ConstantsAssumption DEF IInv, Shape, AInv, Counted
<1>3. \A k \in {"scale", "pull"} : version[k] <= surprises + Cardinality(Ran)
  BY Zenon DEF AInv, Counted
<1>4. ASSUME NEW a \in Approver, Execute(a) PROVE Counted'
  BY Zenon, <1>1, <1>2, <1>4, ExecuteCount DEF Counted
<1>5. ASSUME NEW kind \in {"scale", "pull"}, OthersChange(kind) PROVE Counted'
  <2>1. version' = [version EXCEPT ![kind] = @ + 1] /\ surprises' = surprises + 1 /\ surprises < MaxSurprises
        /\ UNCHANGED <<runs, hit>>
    BY Zenon, <1>5 DEF OthersChange, Surprise, history
  <2>2. Ran' = Ran
    BY Zenon, <2>1 DEF Ran
  <2>3. \A k \in {"scale", "pull"} : version'[k] <= version[k] + 1 /\ version'[k] \in Nat
    BY <1>2, <2>1
  <2>4. \A k \in {"scale", "pull"} : version'[k] <= surprises' + Cardinality(Ran')
    BY <1>2, <1>3, <2>1, <2>2, <2>3, RanBound
  <2>5. \A o \in Operation : hit'[o] \subseteq Versions
    BY Zenon, <2>1 DEF AInv, Counted
  <2> QED
    BY <1>1, <1>2, <2>1, <2>4, <2>5 DEF Counted
<1>6. CASE (\A a \in Approver : ~Execute(a)) /\ \A kind \in {"scale", "pull"} : ~OthersChange(kind)
  <2>1. UNCHANGED <<version, runs, hit>> /\ (UNCHANGED surprises \/ Surprise)
    BY Zenon, <1>6, QuietStep
  <2>2. Ran' = Ran
    BY Zenon, <2>1 DEF Ran
  <2>3. surprises' \in 0..MaxSurprises /\ surprises' >= surprises
    BY <1>2, <2>1 DEF Surprise
  <2>4. \A k \in {"scale", "pull"} : version'[k] <= surprises' + Cardinality(Ran')
    BY <1>2, <1>3, <2>1, <2>2, <2>3, RanBound
  <2>5. \A o \in Operation : hit'[o] \subseteq Versions
    BY <2>1 DEF AInv, Counted
  <2> QED
    BY <1>1, <2>3, <2>4, <2>5 DEF Counted
<1> QED
  BY Zenon, <1>4, <1>5, <1>6

\* The flags stay what they are.
LEMMA FlagsStep ==
    ASSUME IInv, AInv, [Next]_vars
    PROVE  Flags'
<1>0. Flags
  BY DEF AInv
<1>1. ASSUME NEW n \in Notice, Upsert(n) PROVE Flags'
  <2>1. notice[n].state \in {"firing", "resolved"}
    BY Zenon DEF IInv, Shape, NoticeState
  <2>2. heard' \in {"none", "firing", "resolved"}
    BY Zenon, <1>0, <1>1, <2>1 DEF Upsert, Flags
  <2>3. crossed' \in BOOLEAN
    BY Zenon, <1>0, <1>1 DEF Upsert, Flags
  <2>4. trouble' \in BOOLEAN /\ UNCHANGED <<managed, switched>>
    BY Zenon, <1>0, <1>1 DEF Upsert, Flags, TroubleOccurs, world
  <2> QED
    BY Zenon, <1>0, <2>2, <2>3, <2>4 DEF Flags
<1>2. ASSUME \A n \in Notice : ~Upsert(n) PROVE Flags'
  <2>1. UNCHANGED <<heard, crossed>>
    BY ZenonT(40), <1>2 DEF Next, CallStep, ApproverStep, NoticeStep, RequestChange, RequestCleanup, CreateAgentOperation,
        LinkEvent, Resolve, Inspect, InspectFails, Refuse, Approve, MarkRemediating, Execute, Settle, Report,
        Notify, EnablePolicy, MarkAnalyzing, Dispatch, EndChat, DisablePolicy, AlertTurns, BecomesLate,
        OthersChange, NodeRemoved, Restart, history, vars
  <2>2. /\ UNCHANGED managed \/ managed' = FALSE
        /\ UNCHANGED switched \/ switched' = TRUE
        /\ UNCHANGED trouble \/ trouble' = TRUE
    BY Zenon, <1>2 DEF Next, CallStep, ApproverStep, NoticeStep, RequestChange, RequestCleanup, CreateAgentOperation,
        LinkEvent, Resolve, Inspect, InspectFails, Refuse, Approve, MarkRemediating, Execute, Settle, Report,
        Notify, EnablePolicy, MarkAnalyzing, Dispatch, EndChat, DisablePolicy, AlertTurns, BecomesLate,
        OthersChange, NodeRemoved, Restart, SaveEvent, TroubleOccurs, world, history, vars
  <2> QED
    BY ZenonT(40), <1>0, <2>1, <2>2 DEF Flags
<1> QED
  BY <1>1, <1>2

-----------------------------------------------------------------------------
\* What the Runtime's requests carry.
LEMMA CallsStep ==
    ASSUME IInv, AInv, [Next]_vars
    PROVE  \A c \in Call : CallOK(call'[c])
<1>0. call \in [Call -> CallShape] /\ \A c \in Call : CallOK(call[c])
  BY Zenon DEF IInv, Shape, AInv, Carried
<1>1. ASSUME NEW c \in Call, NEW k, CallOK(k), call' = [call EXCEPT ![c] = k]
      PROVE  \A d \in Call : CallOK(call'[d])
  BY <1>0, <1>1
<1>2. ASSUME NEW c \in Call, NEW key \in Key, NEW kind \in {"scale", "pull"}, RequestChange(c, kind, key)
      PROVE  \A d \in Call : CallOK(call'[d])
  <2> DEFINE k == [call[c] EXCEPT !.pc = "create", !.kind = kind, !.key = key, !.version = version[kind]]
  <2>1. k.pc = "create" /\ k.kind = kind /\ k.version = version[kind] /\ k.copy = call[c].copy
    BY <1>0 DEF CallShape
  <2>2. call' = [call EXCEPT ![c] = k]
    BY <1>2 DEF RequestChange
  <2> HIDE DEF k
  <2>3. version[kind] \in Versions
    BY VersionFits DEF IInv, AInv
  <2>4. CallOK(k)
    BY Zenon, <1>0, <2>1, <2>3 DEF CallOK
  <2> QED
    BY Zenon, <1>1, <2>2, <2>4
<1>3. ASSUME NEW c \in Call, NEW key \in Key, RequestCleanup(c, key)
      PROVE  \A d \in Call : CallOK(call'[d])
  <2> DEFINE k == [call[c] EXCEPT !.pc = "create", !.kind = "cleanup", !.key = key, !.copy = event]
  <2>1. k.pc = "create" /\ k.kind = "cleanup" /\ k.version = call[c].version /\ k.copy = event
    BY <1>0 DEF CallShape
  <2>2. call' = [call EXCEPT ![c] = k]
    BY <1>3 DEF RequestCleanup
  <2> HIDE DEF k
  <2>3. Live(event)
    BY Zenon, <1>3 DEF RequestCleanup, AInv, Tracked, Live
  <2>4. CallOK(k)
    BY Zenon, <1>0, <2>1, <2>3, LiveRow DEF CallOK
  <2> QED
    BY Zenon, <1>1, <2>2, <2>4
<1>4. ASSUME NEW c \in Call, CreateAgentOperation(c)
      PROVE  \A d \in Call : CallOK(call'[d])
  <2>1. call[c].pc = "create"
    BY Zenon, <1>4 DEF CreateAgentOperation
  <2>2. ASSUME NEW o \in Operation
        PROVE  CallOK(IF call[c].kind = "cleanup" THEN [call[c] EXCEPT !.pc = "link", !.op = o] ELSE Done(IdleCall))
    <3> DEFINE k == [call[c] EXCEPT !.pc = "link", !.op = o]
    <3>1. k.pc = "link" /\ k.kind = call[c].kind /\ k.version = call[c].version /\ k.copy = call[c].copy
      BY Zenon, <1>0 DEF CallShape
    <3> HIDE DEF k
    <3>2. call[c].kind = "cleanup" => CallOK(k)
      BY <1>0, <2>1, <3>1 DEF CallOK
    <3> QED
      BY <3>2, Ended DEF k
  <2>3. \/ \E o \in Operation : call' = [call EXCEPT ![c] =
             IF call[c].kind = "cleanup" THEN [call[c] EXCEPT !.pc = "link", !.op = o] ELSE Done(IdleCall)]
        \/ call' = [call EXCEPT ![c] = Done(IdleCall)]
    BY Zenon, <1>4 DEF CreateAgentOperation, Stored
  <2> QED
    BY Zenon, <1>1, <2>2, <2>3, Ended
<1>5. ASSUME NEW c \in Call, LinkEvent(c)
      PROVE  \A d \in Call : CallOK(call'[d])
  BY Zenon, <1>1, <1>5, Ended DEF LinkEvent
<1>6. CASE Restart
  BY Zenon, <1>0, <1>6, Ended DEF Restart
<1>7. CASE UNCHANGED call
  BY <1>0, <1>7
<1> QED
  BY Zenon, <1>2, <1>3, <1>4, <1>5, <1>6, <1>7
     DEF Next, CallStep, ApproverStep, NoticeStep, Resolve, Inspect, InspectFails, Refuse, Approve, MarkRemediating,
         Execute, Settle, Report, Notify, EnablePolicy, Upsert, MarkAnalyzing, Dispatch, EndChat, DisablePolicy,
         AlertTurns, BecomesLate, OthersChange, NodeRemoved, vars

\* What the notifications carry.
LEMMA NoticesStep ==
    ASSUME IInv, AInv, [Next]_vars
    PROVE  \A n \in Notice : NoticeOK(notice'[n])
<1>0. /\ notice \in [Notice -> NoticeState] /\ \A n \in Notice : NoticeOK(notice[n])
      /\ \A n \in Notice : notice[n].copy \in AlertEvent
  BY Zenon DEF IInv, Shape, AInv, Carried, NoticeState
<1>1. ASSUME NEW n \in Notice, NEW q, NoticeOK(q), notice' = [notice EXCEPT ![n] = q]
      PROVE  \A m \in Notice : NoticeOK(notice'[m])
  BY <1>0, <1>1
<1>2. ASSUME NEW n \in Notice, NEW s \in {"mark", "dispatch", "chat"}, NEW row \in AlertEvent, Live(row),
             s \in {"dispatch", "chat"} => row.status = "analyzing"
      PROVE  NoticeOK([notice[n] EXCEPT !.pc = s, !.copy = row])
  <2> DEFINE q == [notice[n] EXCEPT !.pc = s, !.copy = row]
  <2>1. q.pc = s /\ q.copy = row
    BY Zenon, <1>0 DEF NoticeState
  <2> HIDE DEF q
  <2>2. NoticeOK(q)
    BY Zenon, <1>2, <2>1, LiveRow DEF NoticeOK
  <2> QED
    BY <2>2 DEF q
<1>3. ASSUME NEW n \in Notice, Notify(n) PROVE \A m \in Notice : NoticeOK(notice'[m])
  <2> DEFINE q == [notice[n] EXCEPT !.pc = "received", !.state = alert, !.policy = policy]
  <2>1. q.pc = "received" /\ q.copy = notice[n].copy /\ notice' = [notice EXCEPT ![n] = q]
    BY Zenon, <1>0, <1>3 DEF NoticeState, Notify
  <2> HIDE DEF q
  <2> QED
    BY <1>0, <1>1, <2>1 DEF NoticeOK
<1>4. ASSUME NEW n \in Notice, EnablePolicy(n) PROVE \A m \in Notice : NoticeOK(notice'[m])
  <2> DEFINE q == [notice[n] EXCEPT !.pc = "received", !.force = TRUE, !.policy = TRUE]
  <2>1. q.pc = "received" /\ q.copy = notice[n].copy
    BY <1>0 DEF NoticeState
  <2>2. notice' = [notice EXCEPT ![n] = q] \/ notice' = [notice EXCEPT ![n] = Done(IdleNotice)]
    BY Zenon, <1>4 DEF EnablePolicy
  <2> HIDE DEF q
  <2>3. NoticeOK(q)
    BY Zenon, <1>0, <2>1 DEF NoticeOK
  <2> QED
    BY <1>1, <2>2, <2>3, Ended
<1>5. ASSUME NEW n \in Notice, Upsert(n) PROVE \A m \in Notice : NoticeOK(notice'[m])
  <2> DEFINE row == Upserted(event, notice[n].state)
  <2>1. /\ row \in AlertEvent
        /\ row.status # "resolved" => Live(row)
    <3>1. event \in AlertEvent /\ notice[n].state \in {"firing", "resolved"}
      BY Zenon, <1>0 DEF IInv, Shape, NoticeState
    <3>2. event.ended <=> event.status = "resolved"
      BY Zenon DEF AInv, Tracked
    <3> QED
      BY Zenon, <3>1, <3>2 DEF Upserted, AlertEvent, EventStatus, Live
  <2>2. \/ notice' = [notice EXCEPT ![n] = Done(IdleNotice)]
        \/ row.status # "resolved" /\ notice' = [notice EXCEPT ![n] = [@ EXCEPT !.pc = "mark", !.copy = row]]
    BY Zenon, <1>5 DEF Upsert
  <2> HIDE DEF row
  <2> QED
    BY Zenon, <1>1, <1>2, <2>1, <2>2, Ended
<1>6. ASSUME NEW n \in Notice, MarkAnalyzing(n) PROVE \A m \in Notice : NoticeOK(notice'[m])
  <2> DEFINE row == [notice[n].copy EXCEPT !.status = "analyzing", !.dispatched = TRUE]
  <2>1. Live(notice[n].copy)
    BY <1>0, <1>6 DEF MarkAnalyzing, NoticeOK
  <2>2. row \in AlertEvent /\ Live(row) /\ row.status = "analyzing"
    BY Zenon, <1>0, <2>1, Rows, Saved DEF EventStatus
  <2>3. \/ notice' = [notice EXCEPT ![n] = Done(IdleNotice)]
        \/ notice' = [notice EXCEPT ![n] = [@ EXCEPT !.pc = "dispatch", !.copy = row]]
    BY <1>6 DEF MarkAnalyzing
  <2> HIDE DEF row
  <2> QED
    BY Zenon, <1>1, <1>2, <2>2, <2>3, Ended
<1>7. ASSUME NEW n \in Notice, Dispatch(n) PROVE \A m \in Notice : NoticeOK(notice'[m])
  <2> DEFINE row == [notice[n].copy EXCEPT !.runtime = TRUE]
  <2>1. Live(notice[n].copy) /\ notice[n].copy.status = "analyzing"
    BY <1>0, <1>7 DEF Dispatch, NoticeOK
  <2>2. row \in AlertEvent /\ Live(row) /\ row.status = "analyzing"
    BY Zenon, <1>0, <2>1 DEF AlertEvent, Live
  <2>3. \/ notice' = [notice EXCEPT ![n] = Done(IdleNotice)]
        \/ notice' = [notice EXCEPT ![n] = [@ EXCEPT !.pc = "chat", !.copy = row]]
    BY Zenon, <1>7 DEF Dispatch
  <2> HIDE DEF row
  <2> QED
    BY Zenon, <1>1, <1>2, <2>2, <2>3, Ended
<1>8. ASSUME NEW n \in Notice, EndChat(n) PROVE \A m \in Notice : NoticeOK(notice'[m])
  BY Zenon, <1>1, <1>8, Ended DEF EndChat
<1>9. CASE Restart
  BY <1>0, <1>9, Ended DEF Restart
<1>10. CASE UNCHANGED notice
  BY <1>0, <1>10
<1> QED
  BY Zenon, <1>3, <1>4, <1>5, <1>6, <1>7, <1>8, <1>9, <1>10
     DEF Next, CallStep, ApproverStep, NoticeStep, RequestChange, RequestCleanup, CreateAgentOperation, LinkEvent,
         Resolve, Inspect, InspectFails, Refuse, Approve, MarkRemediating, Execute, Settle, Report, DisablePolicy,
         AlertTurns, BecomesLate, OthersChange, NodeRemoved, vars

\* What the approvers carry: the kind of an operation never changes, so only the
\* approver that moves is of interest.
LEMMA ApproversStep ==
    ASSUME IInv, AInv, [Next]_vars, Kept
    PROVE  \A a \in Approver : ApproverOK(approver'[a], op')
<1>0. /\ approver \in [Approver -> ApproverShape]
      /\ \A a \in Approver : /\ ApproverOK(approver[a], op) /\ Relies(approver[a], op, runs)
                             /\ approver[a].copy \in AlertEvent
  BY Zenon DEF IInv, Shape, OwnerInv, AInv, Carried, ApproverShape
<1>1. ASSUME NEW b \in Approver PROVE ApproverOK(approver[b], op')
  BY <1>0 DEF ApproverOK, Relies, Kept, Bound
<1>2. ASSUME NEW a \in Approver, NEW p, ApproverOK(p, op'), approver' = [approver EXCEPT ![a] = p]
      PROVE  \A b \in Approver : ApproverOK(approver'[b], op')
  BY Zenon, <1>0, <1>1, <1>2
<1>3. ASSUME NEW a \in Approver, approver' = [approver EXCEPT ![a] = Done(IdleApprover)]
      PROVE  \A b \in Approver : ApproverOK(approver'[b], op')
  BY Zenon, <1>2, <1>3, Ended
<1>4. ASSUME NEW a \in Approver, NEW o \in Operation, NEW approve \in BOOLEAN, Resolve(a, o, approve)
      PROVE  \A b \in Approver : ApproverOK(approver'[b], op')
  <2> DEFINE s == IF op[o].late THEN "expired" ELSE IF approve THEN "inspect" ELSE "rejected"
             p == [approver[a] EXCEPT !.op = o, !.pc = s]
  <2>1. p.pc = s /\ p.version = approver[a].version /\ p.copy = approver[a].copy
    BY <1>0 DEF ApproverShape
  <2>2. approver' = [approver EXCEPT ![a] = p]
    BY <1>4 DEF Resolve
  <2>3. s \notin Bound \cup {"mark", "report"}
    BY Zenon DEF Bound
  <2> HIDE DEF p, s
  <2>4. ApproverOK(p, op')
    BY Zenon, <1>0, <2>1, <2>3 DEF ApproverOK
  <2> QED
    BY Zenon, <1>2, <2>2, <2>4
<1>5. ASSUME NEW a \in Approver, Inspect(a)
      PROVE  \A b \in Approver : ApproverOK(approver'[b], op')
  <2> DEFINE o == approver[a].op
             q == [approver[a] EXCEPT !.pc = "stale"]
             r == [approver[a] EXCEPT !.pc = "approve",
                           !.version = IF op[o].kind = "scale" THEN version["scale"] ELSE 0,
                           !.copy = IF op[o].kind = "cleanup" THEN event ELSE NoEvent]
  <2>1. o \in Operation /\ op[o].status # "none" /\ UNCHANGED op
    BY Zenon, <1>0, <1>5 DEF Inspect, Relies
  <2>2. q.pc = "stale" /\ q.version = approver[a].version /\ q.copy = approver[a].copy
    BY <1>0 DEF ApproverShape
  <2>3. /\ r.pc = "approve" /\ r.op = o
        /\ r.version = IF op[o].kind = "scale" THEN version["scale"] ELSE 0
        /\ r.copy = IF op[o].kind = "cleanup" THEN event ELSE NoEvent
    BY <1>0 DEF ApproverShape
  <2>4. approver' = [approver EXCEPT ![a] = IF Outdated(o) THEN q ELSE r]
    BY Zenon, <1>5 DEF Inspect
  <2>5. ~Outdated(o) /\ op[o].kind = "cleanup" => Live(event)
    BY Zenon, <2>1 DEF Outdated, AInv, Tracked, Live
  <2>6. version["scale"] \in Versions
    BY Zenon, VersionFits DEF IInv, AInv
  <2> HIDE DEF q, r, o
  <2>7. ApproverOK(q, op')
    BY Zenon, <1>0, <2>2 DEF ApproverOK, Bound
  <2>8. ~Outdated(o) => CopyOK(r.copy)
    BY Zenon, <2>3, <2>5 DEF CopyOK
  <2>9. ~Outdated(o) => ApproverOK(r, op')
    BY Zenon, <2>1, <2>3, <2>5, <2>6, <2>8, Ended DEF ApproverOK
  <2> QED
    BY Zenon, <1>2, <2>4, <2>7, <2>9
<1>6. ASSUME NEW a \in Approver, NEW s \in {"mark", "execute", "settle", "report"}, NEW p,
             p.pc = s, p.op = approver[a].op, p.version = approver[a].version,
             p.copy = approver[a].copy \/ Live(p.copy),
             approver[a].pc \in Bound, s \in {"mark", "report"} => op[p.op].kind = "cleanup"
      PROVE  ApproverOK(p, op')
  <2>1. p.op \in Operation /\ op[p.op].status # "none"
    BY Zenon, <1>0, <1>6 DEF Relies, Bound
  <2>2. op'[p.op].kind = op[p.op].kind
    BY Zenon, <2>1 DEF Kept
  <2> QED
    BY Zenon, <1>0, <1>6, <2>1, <2>2, LiveRow DEF ApproverOK
<1>7. ASSUME NEW a \in Approver, Approve(a)
      PROVE  \A b \in Approver : ApproverOK(approver'[b], op')
  <2> DEFINE s == IF op[approver[a].op].kind = "cleanup" THEN "mark" ELSE "execute"
             p == [approver[a] EXCEPT !.pc = s]
  <2>1. p.pc = s /\ p.op = approver[a].op /\ p.version = approver[a].version /\ p.copy = approver[a].copy
    BY Zenon, <1>0 DEF ApproverShape
  <2>2. approver' = [approver EXCEPT ![a] = p] \/ approver' = [approver EXCEPT ![a] = Done(IdleApprover)]
    BY Zenon, <1>7 DEF Approve
  <2>3. s \in {"mark", "execute"} /\ (s = "mark" => op[approver[a].op].kind = "cleanup") /\ approver[a].pc \in Bound
    BY Zenon, <1>7 DEF Approve, Bound
  <2> HIDE DEF p, s
  <2>4. ApproverOK(p, op')
    BY Zenon, <1>6, <2>1, <2>3
  <2> QED
    BY <1>2, <1>3, <2>2, <2>4
<1>8. ASSUME NEW a \in Approver, MarkRemediating(a)
      PROVE  \A b \in Approver : ApproverOK(approver'[b], op')
  <2> DEFINE row == [approver[a].copy EXCEPT !.status = "remediating"]
             p == [approver[a] EXCEPT !.pc = "execute", !.copy = row]
  <2>1. p.pc = "execute" /\ p.op = approver[a].op /\ p.version = approver[a].version /\ p.copy = row
    BY <1>0 DEF ApproverShape
  <2>2. approver' = [approver EXCEPT ![a] = p] /\ approver[a].pc = "mark"
    BY Zenon, <1>8 DEF MarkRemediating
  <2>3. Live(approver[a].copy)
    BY Zenon, <1>0, <2>2 DEF ApproverOK, Bound
  <2>4. Live(row)
    BY Zenon, <1>0, <2>3, Saved DEF EventStatus
  <2> HIDE DEF p, row
  <2>5. ApproverOK(p, op')
    BY Zenon, <1>6, <2>1, <2>2, <2>4 DEF Bound
  <2> QED
    BY Zenon, <1>2, <2>2, <2>5
<1>9. ASSUME NEW a \in Approver, Execute(a)
      PROVE  \A b \in Approver : ApproverOK(approver'[b], op')
  <2>1. PICK ok \in BOOLEAN : approver' = [approver EXCEPT ![a] = [@ EXCEPT !.pc = "settle", !.ok = ok]]
    BY Zenon, <1>9 DEF Execute
  <2> DEFINE p == [approver[a] EXCEPT !.pc = "settle", !.ok = ok]
  <2>2. p.pc = "settle" /\ p.op = approver[a].op /\ p.version = approver[a].version /\ p.copy = approver[a].copy
    BY Zenon, <1>0 DEF ApproverShape
  <2>3. approver' = [approver EXCEPT ![a] = p] /\ approver[a].pc = "execute"
    BY Zenon, <1>9, <2>1 DEF Execute
  <2> HIDE DEF p
  <2>4. ApproverOK(p, op')
    BY Zenon, <1>6, <2>2, <2>3 DEF Bound
  <2> QED
    BY Zenon, <1>2, <2>3, <2>4
<1>10. ASSUME NEW a \in Approver, Settle(a)
       PROVE  \A b \in Approver : ApproverOK(approver'[b], op')
  <2> DEFINE p == [approver[a] EXCEPT !.pc = "report"]
  <2>1. p.pc = "report" /\ p.op = approver[a].op /\ p.version = approver[a].version /\ p.copy = approver[a].copy
    BY <1>0 DEF ApproverShape
  <2>2. /\ approver[a].pc = "settle"
        /\ approver' = [approver EXCEPT ![a] =
             IF op[approver[a].op].kind = "cleanup" THEN p ELSE Done(IdleApprover)]
    BY Zenon, <1>10 DEF Settle
  <2> HIDE DEF p
  <2>3. op[approver[a].op].kind = "cleanup" => ApproverOK(p, op')
    BY <1>6, <2>1, <2>2 DEF Bound
  <2> QED
    BY Zenon, <1>2, <1>3, <2>2, <2>3
<1>11. ASSUME NEW a \in Approver, InspectFails(a) \/ Refuse(a) \/ Report(a)
       PROVE  \A b \in Approver : ApproverOK(approver'[b], op')
  BY Zenon, <1>3, <1>11 DEF InspectFails, Refuse, Report
<1>12. CASE Restart
  BY <1>0, <1>1, <1>12, Ended DEF Restart
<1>13. CASE UNCHANGED approver
  BY Zenon, <1>1, <1>13
<1> QED
  BY Zenon, <1>4, <1>5, <1>7, <1>8, <1>9, <1>10, <1>11, <1>12, <1>13
     DEF Next, CallStep, ApproverStep, NoticeStep, RequestChange, RequestCleanup, CreateAgentOperation, LinkEvent,
         Notify, EnablePolicy, Upsert, MarkAnalyzing, Dispatch, EndChat, DisablePolicy, AlertTurns, BecomesLate,
         OthersChange, NodeRemoved, vars

-----------------------------------------------------------------------------
\* Who has a copy had one, or has just read the row of an alert that fires.
LEMMA HoldersStep ==
    ASSUME IInv, AInv, [Next]_vars, \A n \in Notice : ~Upsert(n), HoldsCopy'
    PROVE  HoldsCopy \/ Live(event)
<1>0. /\ call \in [Call -> CallShape] /\ approver \in [Approver -> ApproverShape]
      /\ notice \in [Notice -> NoticeState]
  BY Zenon DEF IInv, Shape
<1> DEFINE Goal == HoldsCopy \/ Live(event)
<1>1. ASSUME UNCHANGED <<call, approver, notice>> PROVE Goal
  BY Zenon, <1>1 DEF HoldsCopy
<1>2. ASSUME NEW c \in Call, NEW k, call' = [call EXCEPT ![c] = k], UNCHANGED <<approver, notice>>,
             k.copy = NoEvent \/ k.copy = call[c].copy \/ Live(event)
      PROVE  Goal
  BY Zenon, <1>0, <1>2 DEF HoldsCopy
<1>3. ASSUME NEW a \in Approver, NEW p, approver' = [approver EXCEPT ![a] = p], UNCHANGED <<call, notice>>,
             p.copy = NoEvent \/ approver[a].copy # NoEvent \/ p.copy = approver[a].copy \/ Live(event)
      PROVE  Goal
  BY Zenon, <1>0, <1>3 DEF HoldsCopy
<1>4. ASSUME NEW n \in Notice, NEW q, notice' = [notice EXCEPT ![n] = q], UNCHANGED <<call, approver>>,
             q.copy = NoEvent \/ notice[n].copy # NoEvent \/ q.copy = notice[n].copy
      PROVE  Goal
  BY Zenon, <1>0, <1>4 DEF HoldsCopy
<1>5. ASSUME NEW c \in Call, NEW key \in Key, NEW kind \in {"scale", "pull"}, RequestChange(c, kind, key) PROVE Goal
  <2> DEFINE k == [call[c] EXCEPT !.pc = "create", !.kind = kind, !.key = key, !.version = version[kind]]
  <2>1. k.copy = call[c].copy
    BY <1>0 DEF CallShape
  <2>2. call' = [call EXCEPT ![c] = k] /\ UNCHANGED <<approver, notice>>
    BY <1>5 DEF RequestChange
  <2> HIDE DEF k
  <2> QED
    BY Zenon, <1>2, <2>1, <2>2
<1>6. ASSUME NEW c \in Call, NEW key \in Key, RequestCleanup(c, key) PROVE Goal
  BY <1>6 DEF RequestCleanup, AInv, Tracked, Live
<1>7. ASSUME NEW c \in Call, CallStep(c) PROVE Goal
  <2>1. \A o \in Operation : [call[c] EXCEPT !.pc = "link", !.op = o].copy = call[c].copy
    BY <1>0 DEF CallShape
  <2>2. UNCHANGED <<approver, notice>>
    BY Zenon, <1>7 DEF CallStep, CreateAgentOperation, LinkEvent
  <2>3. \/ \E o \in Operation : call' = [call EXCEPT ![c] = [call[c] EXCEPT !.pc = "link", !.op = o]]
        \/ call' = [call EXCEPT ![c] = Done(IdleCall)]
    BY Zenon, <1>7 DEF CallStep, CreateAgentOperation, LinkEvent, Stored
  <2> QED
    BY Zenon, <1>2, <2>1, <2>2, <2>3, Ended
<1>8. ASSUME NEW a \in Approver, NEW o \in Operation, NEW approve \in BOOLEAN, Resolve(a, o, approve) PROVE Goal
  <2> DEFINE s == IF op[o].late THEN "expired" ELSE IF approve THEN "inspect" ELSE "rejected"
             p == [approver[a] EXCEPT !.op = o, !.pc = s]
  <2>1. p.copy = approver[a].copy
    BY Zenon, <1>0 DEF ApproverShape
  <2>2. approver' = [approver EXCEPT ![a] = p] /\ UNCHANGED <<call, notice>>
    BY Zenon, <1>8 DEF Resolve
  <2> HIDE DEF p
  <2> QED
    BY Zenon, <1>3, <2>1, <2>2
<1>9. ASSUME NEW a \in Approver, ApproverStep(a) PROVE Goal
  <2>0. UNCHANGED <<call, notice>>
    BY Zenon, <1>9 DEF ApproverStep, Inspect, InspectFails, Refuse, Approve, MarkRemediating, Execute, Settle, Report
  <2>1. CASE approver[a].copy # NoEvent
    BY Zenon, <2>1 DEF HoldsCopy
  <2>2. CASE Inspect(a)
    <3> DEFINE o == approver[a].op
               q == [approver[a] EXCEPT !.pc = "stale"]
               r == [approver[a] EXCEPT !.pc = "approve",
                             !.version = IF op[o].kind = "scale" THEN version["scale"] ELSE 0,
                             !.copy = IF op[o].kind = "cleanup" THEN event ELSE NoEvent]
    <3>1. q.copy = approver[a].copy /\ r.copy = IF op[o].kind = "cleanup" THEN event ELSE NoEvent
      BY Zenon, <1>0 DEF ApproverShape
    <3>2. approver' = [approver EXCEPT ![a] = IF Outdated(o) THEN q ELSE r]
      BY Zenon, <2>2 DEF Inspect
    <3>3. o \in Operation /\ op[o].status # "none"
      BY Zenon, <2>2 DEF Inspect, IInv, OwnerInv, Relies
    <3>4. ~Outdated(o) /\ op[o].kind = "cleanup" => Live(event)
      BY Zenon, <3>3 DEF Outdated, AInv, Tracked, Live
    <3> HIDE DEF q, r, o
    <3>5. CASE Outdated(o)
      BY Zenon, <1>3, <2>0, <3>1, <3>2, <3>5
    <3>6. CASE ~Outdated(o)
      BY Zenon, <1>3, <2>0, <3>1, <3>2, <3>4, <3>6
    <3> QED
      BY Zenon, <3>5, <3>6
  <2>3. CASE approver[a].pc = "mark"
    <3>1. Live(approver[a].copy)
      BY <2>3 DEF AInv, Carried, ApproverOK, Bound
    <3> QED
      BY Zenon, <2>1, <3>1, LiveRow
  <2>4. CASE ~Inspect(a) /\ approver[a].pc # "mark"
    <3>1. \/ approver' = [approver EXCEPT ![a] = Done(IdleApprover)]
          \/ \E s \in {"mark", "execute", "report"} : approver' = [approver EXCEPT ![a] = [@ EXCEPT !.pc = s]]
          \/ \E ok \in BOOLEAN : approver' = [approver EXCEPT ![a] = [@ EXCEPT !.pc = "settle", !.ok = ok]]
      BY Zenon, <1>9, <2>4 DEF ApproverStep, InspectFails, Refuse, Approve, MarkRemediating, Execute, Settle, Report
    <3>2. /\ \A s : [approver[a] EXCEPT !.pc = s].copy = approver[a].copy
          /\ \A s, ok : [approver[a] EXCEPT !.pc = s, !.ok = ok].copy = approver[a].copy
      BY Zenon, <1>0 DEF ApproverShape
    <3> QED
      BY Zenon, <1>3, <2>0, <3>1, <3>2, Ended
  <2> QED
    BY <2>2, <2>3, <2>4
<1>10. ASSUME NEW n \in Notice, Notify(n) \/ EnablePolicy(n) \/ NoticeStep(n) PROVE Goal
  <2>0. UNCHANGED <<call, approver>>
    BY Zenon, <1>10 DEF Notify, EnablePolicy, NoticeStep, Upsert, MarkAnalyzing, Dispatch, EndChat
  <2>1. CASE notice[n].pc \in {"mark", "dispatch", "chat"}
    <3>1. notice[n].copy # NoEvent
      BY Zenon, <2>1, LiveRow DEF AInv, Carried, NoticeOK
    <3> QED
      BY Zenon, <3>1 DEF HoldsCopy
  <2>2. CASE Notify(n) \/ EnablePolicy(n)
    <3> DEFINE q == [notice[n] EXCEPT !.pc = "received", !.state = alert, !.policy = policy]
               r == [notice[n] EXCEPT !.pc = "received", !.force = TRUE, !.policy = TRUE]
    <3>1. q.copy = notice[n].copy /\ r.copy = notice[n].copy
      BY <1>0 DEF NoticeState
    <3>2. \/ notice' = [notice EXCEPT ![n] = q] \/ notice' = [notice EXCEPT ![n] = r]
          \/ notice' = [notice EXCEPT ![n] = Done(IdleNotice)]
      BY Zenon, <2>2 DEF Notify, EnablePolicy
    <3> HIDE DEF q, r
    <3> QED
      BY <1>4, <2>0, <3>1, <3>2, Ended
  <2> QED
    BY <1>10, <2>1, <2>2 DEF NoticeStep, MarkAnalyzing, Dispatch, EndChat
<1>11. CASE Restart
  BY <1>0, <1>11, Ended DEF Restart, HoldsCopy
<1> QED
  BY Zenon, <1>1, <1>5, <1>6, <1>7, <1>8, <1>9, <1>10, <1>11
     DEF Next, DisablePolicy, AlertTurns, BecomesLate, OthersChange, NodeRemoved, vars

\* What a step other than a notification's makes of the alert's row: nothing, or
\* the copy of somebody, in which the alert fires; it shows as under repair or
\* under analysis only when somebody starts the one or goes on with the other.
LEMMA SavesStep ==
    ASSUME IInv, AInv, [Next]_vars, \A n \in Notice : ~Upsert(n), event' # event
    PROVE  /\ HoldsCopy /\ Live(event')
           /\ event'.status = "remediating" => \E a \in Approver : MarkRemediating(a)
           /\ event'.status = "analyzing" =>
                \E n \in Notice : notice' = [notice EXCEPT ![n] = [@ EXCEPT !.pc = "dispatch", !.copy = event']]
                                  \/ notice' = [notice EXCEPT ![n] = [@ EXCEPT !.pc = "chat", !.copy = event']]
<1> DEFINE Goal == /\ HoldsCopy /\ Live(event')
                   /\ event'.status = "remediating" => \E a \in Approver : MarkRemediating(a)
                   /\ event'.status = "analyzing" =>
                        \E n \in Notice :
                           notice' = [notice EXCEPT ![n] = [@ EXCEPT !.pc = "dispatch", !.copy = event']]
                           \/ notice' = [notice EXCEPT ![n] = [@ EXCEPT !.pc = "chat", !.copy = event']]
<1>0. /\ \A c \in Call : call[c] \in CallShape /\ CallOK(call[c])
      /\ \A a \in Approver : approver[a] \in ApproverShape /\ ApproverOK(approver[a], op)
      /\ \A n \in Notice : notice[n] \in NoticeState /\ NoticeOK(notice[n])
  BY DEF IInv, Shape, AInv, Carried
<1>1. ASSUME NEW c \in Call, LinkEvent(c) PROVE Goal
  <2> DEFINE row == [call[c].copy EXCEPT !.op = call[c].op, !.status = "awaiting_approval"]
  <2>1. call[c].copy \in AlertEvent /\ call[c].op \in Operation \cup {None} /\ Live(call[c].copy)
    BY <1>0, <1>1 DEF LinkEvent, CallOK, CallShape
  <2>2. Live(row) /\ row.status = "awaiting_approval"
    BY Zenon, <2>1 DEF AlertEvent, Live
  <2>3. event' = row
    BY <1>1 DEF LinkEvent, SaveEvent
  <2> HIDE DEF row
  <2> QED
    BY Zenon, <2>1, <2>2, <2>3, LiveRow DEF HoldsCopy
<1>2. ASSUME NEW a \in Approver, MarkRemediating(a) \/ Report(a) PROVE Goal
  <2>1. approver[a].copy \in AlertEvent /\ Live(approver[a].copy)
    BY Zenon, <1>0, <1>2 DEF MarkRemediating, Report, ApproverOK, ApproverShape, Bound
  <2>2. PICK s \in {"remediating", "firing", "failed"} :
          event' = [approver[a].copy EXCEPT !.status = s] /\ (s = "remediating" => MarkRemediating(a))
    BY <1>2 DEF MarkRemediating, Report, SaveEvent
  <2>3. Live(event') /\ event'.status = s
    BY Zenon, <2>1, <2>2, Saved DEF EventStatus
  <2> QED
    BY Zenon, <2>1, <2>2, <2>3, LiveRow DEF HoldsCopy
<1>3. ASSUME NEW n \in Notice, MarkAnalyzing(n) PROVE Goal
  <2> DEFINE row == [notice[n].copy EXCEPT !.status = "analyzing", !.dispatched = TRUE]
  <2>1. notice[n].copy \in AlertEvent /\ Live(notice[n].copy)
    BY <1>0, <1>3 DEF MarkAnalyzing, NoticeOK, NoticeState
  <2>2. Live(row) /\ row.status = "analyzing"
    BY Zenon, <2>1, Saved DEF EventStatus
  <2>3. event' = row /\ notice' = [notice EXCEPT ![n] = [@ EXCEPT !.pc = "dispatch", !.copy = row]]
    BY <1>3 DEF MarkAnalyzing
  <2> HIDE DEF row
  <2> QED
    BY Zenon, <2>1, <2>2, <2>3, LiveRow DEF HoldsCopy
<1>4. ASSUME NEW n \in Notice, Dispatch(n) PROVE Goal
  <2> DEFINE row == [notice[n].copy EXCEPT !.runtime = TRUE]
             bad == [notice[n].copy EXCEPT !.status = "failed"]
  <2>1. notice[n].copy \in AlertEvent /\ Live(notice[n].copy) /\ notice[n].copy.status = "analyzing"
    BY Zenon, <1>0, <1>4 DEF Dispatch, NoticeOK, NoticeState
  <2>2. Live(row) /\ row.status = "analyzing" /\ Live(bad) /\ bad.status = "failed"
    BY Zenon, <2>1 DEF AlertEvent, Live
  <2>3. \/ event' = bad
        \/ event' = row /\ notice' = [notice EXCEPT ![n] = [@ EXCEPT !.pc = "chat", !.copy = row]]
    BY <1>4 DEF Dispatch, SaveEvent
  <2> HIDE DEF row, bad
  <2> QED
    BY Zenon, <2>1, <2>2, <2>3, LiveRow DEF HoldsCopy
<1>5. ASSUME NEW n \in Notice, EndChat(n) PROVE Goal
  <2>1. notice[n].copy \in AlertEvent /\ Live(notice[n].copy)
    BY Zenon, <1>0, <1>5 DEF EndChat, NoticeOK, NoticeState
  <2>2. PICK s \in {"awaiting_approval", "firing", "failed"} : event' = [notice[n].copy EXCEPT !.status = s]
    BY <1>5 DEF EndChat, SaveEvent
  <2>3. Live(event') /\ event'.status = s
    BY Zenon, <2>1, <2>2, Saved DEF EventStatus
  <2> QED
    BY Zenon, <2>1, <2>2, <2>3, LiveRow DEF HoldsCopy
<1> QED
  BY Zenon, <1>1, <1>2, <1>3, <1>4, <1>5
     DEF Next, CallStep, ApproverStep, NoticeStep, RequestChange, RequestCleanup, CreateAgentOperation, Resolve,
         Inspect, InspectFails, Refuse, Approve, Execute, Settle, Notify, EnablePolicy, DisablePolicy, AlertTurns,
         BecomesLate, OthersChange, NodeRemoved, Restart, vars

\* A notification that is persisted says what the row says from then on.
LEMMA UpsertedRow ==
    ASSUME IInv, AInv, NEW s \in {"firing", "resolved"}
    PROVE  /\ Upserted(event, s).ended <=> Upserted(event, s).status = "resolved"
           /\ Upserted(event, s).status = "resolved" <=> s = "resolved"
           /\ Upserted(event, s).status # "none"
           /\ Upserted(event, s).status \in {"firing", "resolved"} \/ Upserted(event, s) = event
<1>1. event \in AlertEvent /\ (event.ended <=> event.status = "resolved")
  BY Zenon DEF IInv, Shape, AInv, Tracked
<1> QED
  BY Zenon, <1>1 DEF Upserted, AlertEvent

\* Every step keeps what is said of the alert's row.
LEMMA TrackedStep ==
    ASSUME IInv, AInv, [Next]_vars
    PROVE  Tracked'
<1>1. ASSUME NEW n \in Notice, Upsert(n), heard' = notice[n].state PROVE Tracked'
  <2> DEFINE s == notice[n].state
             row == Upserted(event, s)
  <2>1. s \in {"firing", "resolved"} /\ notice \in [Notice -> NoticeState]
    BY Zenon DEF IInv, Shape, NoticeState
  <2>2. /\ row.ended <=> row.status = "resolved"
        /\ row.status = "resolved" <=> s = "resolved"
        /\ row.status # "none"
    BY Zenon, <2>1, UpsertedRow
  <2>3. CASE event' = row /\ crossed' = (crossed \/ HoldsCopy)
             /\ (notice' = [notice EXCEPT ![n] = Done(IdleNotice)]
                 \/ (/\ row.status # "resolved"
                     /\ notice' = [notice EXCEPT ![n] = [@ EXCEPT !.pc = "mark", !.copy = row]]))
    <3> HIDE DEF row
    <3>1. UNCHANGED <<call, approver>>
      BY Zenon, <1>1 DEF Upsert
    <3>2. ~HoldsCopy /\ HoldsCopy' => row.status # "resolved"
      <4>1. ASSUME ~HoldsCopy, HoldsCopy', notice' = [notice EXCEPT ![n] = Done(IdleNotice)] PROVE FALSE
        BY <2>1, <3>1, <4>1, Ended DEF HoldsCopy
      <4> QED
        BY <2>3, <4>1
    <3> QED
      BY Zenon, <1>1, <2>2, <2>3, <3>2 DEF Tracked
  <2>4. CASE UNCHANGED <<event, heard, crossed>> /\ notice' = [notice EXCEPT ![n] = Done(IdleNotice)]
    <3>1. UNCHANGED <<call, approver, op>>
      BY Zenon, <1>1 DEF Upsert
    <3>2. HoldsCopy' => HoldsCopy
      BY Zenon, <2>1, <2>4, <3>1, Ended DEF HoldsCopy
    <3> QED
      BY <2>4, <3>1, <3>2 DEF AInv, Tracked
  <2> QED
    BY Zenon, <1>1, <2>3, <2>4 DEF Upsert
<1>2. ASSUME NEW n \in Notice, Upsert(n), heard' # notice[n].state PROVE Tracked'
  <2>1. UNCHANGED <<event, heard, crossed, op, call, approver>> /\ notice' = [notice EXCEPT ![n] = Done(IdleNotice)]
    BY <1>2 DEF Upsert
  <2>2. HoldsCopy' => HoldsCopy
    BY <2>1, Ended DEF HoldsCopy, IInv, Shape
  <2> QED
    BY <2>1, <2>2 DEF AInv, Tracked
<1>3. ASSUME \A n \in Notice : ~Upsert(n) PROVE Tracked'
  <2>1. HoldsCopy' => HoldsCopy \/ Live(event)
    BY <1>3, HoldersStep
  <2>2. event' = event \/ (HoldsCopy /\ Live(event'))
    BY ZenonT(40), <1>3, SavesStep
  <2>3. UNCHANGED <<heard, crossed>>
    BY Zenon, <1>3 DEF Next, CallStep, ApproverStep, NoticeStep, RequestChange, RequestCleanup, CreateAgentOperation,
        LinkEvent, Resolve, Inspect, InspectFails, Refuse, Approve, MarkRemediating, Execute, Settle, Report,
        Notify, EnablePolicy, MarkAnalyzing, Dispatch, EndChat, DisablePolicy, AlertTurns, BecomesLate,
        OthersChange, NodeRemoved, Restart, history, vars
  <2>4. ASSUME NEW o \in Operation, op'[o].status # "none", op'[o].kind = "cleanup"
        PROVE  HoldsCopy \/ (op[o].status # "none" /\ op[o].kind = "cleanup")
    <3>1. ASSUME NEW c \in Call, call[c].pc = "create", call[c].kind = "cleanup" PROVE HoldsCopy
      BY <3>1, LiveRow DEF AInv, Carried, CallOK, HoldsCopy
    <3> QED
      BY Zenon, <2>4, <3>1, RowStep
  <2>5. Tracked
    BY Zenon DEF AInv
  <2>6. CASE event' = event
    BY Zenon, <2>1, <2>3, <2>4, <2>5, <2>6 DEF Tracked, Live
  <2>7. CASE HoldsCopy /\ Live(event')
    BY Zenon, <2>1, <2>3, <2>5, <2>7 DEF Tracked, Live
  <2> QED
    BY <2>2, <2>6, <2>7
<1> QED
  BY Zenon, <1>1, <1>2, <1>3

-----------------------------------------------------------------------------
\* Who moves an approver, and who moves a notification.
LEMMA Actors ==
    ASSUME [Next]_vars
    PROVE  /\ \/ UNCHANGED approver \/ Restart
              \/ \E a \in Approver : ApproverStep(a)
              \/ \E a \in Approver, o \in Operation, approve \in BOOLEAN : Resolve(a, o, approve)
           /\ \/ UNCHANGED notice \/ Restart
              \/ \E n \in Notice : Notify(n) \/ EnablePolicy(n) \/ NoticeStep(n)
<1>1. \/ UNCHANGED approver \/ Restart
      \/ \E a \in Approver : ApproverStep(a)
      \/ \E a \in Approver, o \in Operation, approve \in BOOLEAN : Resolve(a, o, approve)
  BY ZenonT(40) DEF Next, CallStep, NoticeStep, RequestChange, RequestCleanup, CreateAgentOperation, LinkEvent, Notify,
         EnablePolicy, Upsert, MarkAnalyzing, Dispatch, EndChat, DisablePolicy, AlertTurns, BecomesLate,
         OthersChange, NodeRemoved, vars
<1>2. \/ UNCHANGED notice \/ Restart
      \/ \E n \in Notice : Notify(n) \/ EnablePolicy(n) \/ NoticeStep(n)
  BY Zenon DEF Next, CallStep, ApproverStep, RequestChange, RequestCleanup, CreateAgentOperation, LinkEvent, Resolve,
         Inspect, InspectFails, Refuse, Approve, MarkRemediating, Execute, Settle, Report, DisablePolicy,
         AlertTurns, BecomesLate, OthersChange, NodeRemoved, vars
<1> QED
  BY <1>1, <1>2

\* The owner of an approved operation goes on with it until its outcome is
\* recorded, unless a restart ends it.
LEMMA OwnerMoves ==
    ASSUME IInv, [Next]_vars, ~trouble', NEW a \in Approver, NEW o \in Operation, Owns(a, o), ~Settle(a)
    PROVE  Owns(a, o)'
<1>0. approver \in [Approver -> ApproverShape]
  BY Zenon DEF IInv, Shape
<1>1. approver[a].op = o /\ approver[a].pc \in Working
  BY Zenon DEF Owns
<1>2. CASE approver'[a] = approver[a]
  BY <1>1, <1>2 DEF Owns
<1>3. CASE MarkRemediating(a)
  <2> DEFINE row == [approver[a].copy EXCEPT !.status = "remediating"]
             p == [approver[a] EXCEPT !.pc = "execute", !.copy = row]
  <2>1. p.pc = "execute" /\ p.op = o /\ approver'[a] = p
    BY Zenon, <1>0, <1>1, <1>3 DEF ApproverShape, MarkRemediating
  <2> QED
    BY Zenon, <2>1 DEF Owns, Working
<1>4. CASE Execute(a)
  <2>1. PICK ok \in BOOLEAN : approver' = [approver EXCEPT ![a] = [@ EXCEPT !.pc = "settle", !.ok = ok]]
    BY Zenon, <1>4 DEF Execute
  <2> DEFINE p == [approver[a] EXCEPT !.pc = "settle", !.ok = ok]
  <2>2. p.pc = "settle" /\ p.op = o /\ approver'[a] = p
    BY <1>0, <1>1, <2>1 DEF ApproverShape
  <2> QED
    BY <2>2 DEF Owns, Working
<1>5. \A b \in Approver \ {a} : ApproverStep(b) => approver'[a] = approver[a]
  BY ZenonT(40), <1>0 DEF ApproverStep, Inspect, InspectFails, Refuse, Approve, MarkRemediating, Execute, Settle, Report
<1>6. \A b \in Approver, x \in Operation, approve \in BOOLEAN : Resolve(b, x, approve) => approver'[a] = approver[a]
  BY <1>0, <1>1 DEF Resolve, Working
<1>7. ApproverStep(a) => MarkRemediating(a) \/ Execute(a)
  BY Zenon, <1>1 DEF ApproverStep, Inspect, InspectFails, Refuse, Approve, Report, Working
<1>8. ~Restart
  BY DEF Restart, TroubleOccurs
<1>9. CASE UNCHANGED approver
  BY Zenon, <1>2, <1>9
<1> QED
  BY Zenon, <1>2, <1>3, <1>4, <1>5, <1>6, <1>7, <1>8, <1>9, Actors

\* Who repairs goes on until the alert says how it went.
LEMMA RepairerMoves ==
    ASSUME IInv, [Next]_vars, Kept, ~trouble', NEW a \in Approver, Repairs(a), ~Report(a)
    PROVE  Repairs(a)'
<1>0. approver \in [Approver -> ApproverShape]
  BY Zenon DEF IInv, Shape
<1> DEFINE o == approver[a].op
<1>1. approver[a].pc \in {"execute", "settle", "report"} /\ op[o].kind = "cleanup"
  BY Zenon DEF Repairs
<1>2. o \in Operation /\ op'[o].kind = "cleanup"
  BY Zenon, <1>1 DEF IInv, OwnerInv, Relies, Kept
<1>3. CASE approver'[a] = approver[a]
  BY Zenon, <1>1, <1>2, <1>3 DEF Repairs
<1>4. CASE Execute(a)
  <2>1. PICK ok \in BOOLEAN : approver' = [approver EXCEPT ![a] = [@ EXCEPT !.pc = "settle", !.ok = ok]]
    BY Zenon, <1>4 DEF Execute
  <2> DEFINE p == [approver[a] EXCEPT !.pc = "settle", !.ok = ok]
  <2>2. p.pc = "settle" /\ p.op = o /\ approver'[a] = p
    BY Zenon, <1>0, <2>1 DEF ApproverShape
  <2> QED
    BY <1>2, <2>2 DEF Repairs
<1>5. CASE Settle(a)
  <2> DEFINE p == [approver[a] EXCEPT !.pc = "report"]
  <2>1. p.pc = "report" /\ p.op = o /\ approver'[a] = p
    BY <1>0, <1>1, <1>5 DEF ApproverShape, Settle
  <2> QED
    BY Zenon, <1>2, <2>1 DEF Repairs
<1>6. \A b \in Approver \ {a} : ApproverStep(b) => approver'[a] = approver[a]
  BY ZenonT(40), <1>0 DEF ApproverStep, Inspect, InspectFails, Refuse, Approve, MarkRemediating, Execute, Settle, Report
<1>7. \A b \in Approver, x \in Operation, approve \in BOOLEAN : Resolve(b, x, approve) => approver'[a] = approver[a]
  BY Zenon, <1>0, <1>1 DEF Resolve
<1>8. ApproverStep(a) => Execute(a) \/ Settle(a)
  BY Zenon, <1>1 DEF ApproverStep, Inspect, InspectFails, Refuse, Approve, MarkRemediating
<1>9. ~Restart
  BY DEF Restart, TroubleOccurs
<1>10. CASE UNCHANGED approver
  BY Zenon, <1>3, <1>10
<1> QED
  BY Zenon, <1>3, <1>4, <1>5, <1>6, <1>7, <1>8, <1>9, <1>10, Actors

\* A dispatch ends only by saying so in the alert's row, as long as the policy
\* stays on.
LEMMA AnalystMoves ==
    ASSUME IInv, AInv, [Next]_vars, ~trouble', ~switched', NEW n \in Notice, Analyses(n)
    PROVE  Analyses(n)' \/ event'.status # "analyzing"
<1>0. /\ notice \in [Notice -> NoticeState] /\ notice[n].copy \in AlertEvent
      /\ notice[n].pc \in {"dispatch", "chat"}
  BY Zenon DEF IInv, Shape, NoticeState, Analyses
<1>1. CASE notice'[n] = notice[n]
  BY Zenon, <1>0, <1>1 DEF Analyses
<1>2. CASE Dispatch(n)
  <2> DEFINE row == [notice[n].copy EXCEPT !.runtime = TRUE]
             q == [notice[n] EXCEPT !.pc = "chat", !.copy = row]
             bad == [notice[n].copy EXCEPT !.status = "failed"]
  <2>1. q.pc = "chat" /\ bad.status = "failed"
    BY Zenon, <1>0 DEF NoticeState, AlertEvent
  <2>2. policy
    BY Zenon, <1>2 DEF Dispatch, history, AInv, Owned
  <2>3. event' = bad \/ notice' = [notice EXCEPT ![n] = q]
    BY Zenon, <1>2, <2>2 DEF Dispatch, SaveEvent, TroubleOccurs
  <2> HIDE DEF q, bad
  <2> QED
    BY <1>0, <2>1, <2>3 DEF Analyses
<1>3. CASE EndChat(n)
  <2>1. PICK s \in {"awaiting_approval", "firing", "failed"} : event' = [notice[n].copy EXCEPT !.status = s]
    BY <1>3 DEF EndChat, SaveEvent, TroubleOccurs
  <2>2. event'.status = s
    BY Zenon, <1>0, <2>1 DEF AlertEvent
  <2> QED
    BY Zenon, <2>2
<1>4. \A m \in Notice \ {n} : Notify(m) \/ EnablePolicy(m) \/ NoticeStep(m) => notice'[n] = notice[n]
  BY Zenon, <1>0 DEF Notify, EnablePolicy, NoticeStep, Upsert, MarkAnalyzing, Dispatch, EndChat
<1>5. Notify(n) \/ EnablePolicy(n) \/ NoticeStep(n) => Dispatch(n) \/ EndChat(n)
  BY Zenon, <1>0 DEF Notify, EnablePolicy, NoticeStep, Upsert, MarkAnalyzing
<1>6. ~Restart
  BY Zenon DEF Restart, TroubleOccurs
<1>7. CASE UNCHANGED notice
  BY Zenon, <1>1, <1>7
<1> QED
  BY <1>1, <1>2, <1>3, <1>4, <1>5, <1>6, <1>7, Actors

\* The policy is on unless it has been switched off, and trouble is not forgotten.
LEMMA SwitchStep ==
    ASSUME AInv, [Next]_vars
    PROVE  /\ policy' \/ switched'
           /\ ~trouble' => ~trouble
           /\ ~switched' => ~switched
<1>1. \/ UNCHANGED <<policy, switched>>
      \/ policy' = TRUE /\ UNCHANGED switched
      \/ switched' = TRUE
  BY Zenon DEF Next, CallStep, ApproverStep, NoticeStep, RequestChange, RequestCleanup, CreateAgentOperation,
      LinkEvent, Resolve, Inspect, InspectFails, Refuse, Approve, MarkRemediating, Execute, Settle, Report,
      Notify, EnablePolicy, Upsert, MarkAnalyzing, Dispatch, EndChat, DisablePolicy, AlertTurns, BecomesLate,
      OthersChange, NodeRemoved, Restart, history, vars
<1>2. UNCHANGED trouble \/ trouble' = TRUE
  BY Zenon DEF Next, CallStep, ApproverStep, NoticeStep, RequestChange, RequestCleanup, CreateAgentOperation,
      LinkEvent, Resolve, Inspect, InspectFails, Refuse, Approve, MarkRemediating, Execute, Settle, Report,
      Notify, EnablePolicy, Upsert, MarkAnalyzing, Dispatch, EndChat, DisablePolicy, AlertTurns, BecomesLate,
      OthersChange, NodeRemoved, Restart, SaveEvent, TroubleOccurs, vars
<1> QED
  BY <1>1, <1>2 DEF AInv, Owned

\* Recording an outcome ends the approval, unless the write is lost.
LEMMA SettledStep ==
    ASSUME IInv, ~trouble', NEW a \in Approver, Settle(a)
    PROVE  op'[approver[a].op].status # "approved"
<1> DEFINE o == approver[a].op
           to == IF approver[a].ok THEN "succeeded" ELSE "failed"
<1>1. op \in [Operation -> OperationShape] /\ o \in Operation /\ op[o].status = "approved"
  BY Zenon DEF IInv, Shape, OwnerInv, Relies, Settle, Working
<1>2. UpdateAgentOperationStatus(o, "approved", to)
  BY Zenon DEF Settle, TroubleOccurs
<1>3. "approved" \in OperationStatus \ {"none"} /\ to \in OperationStatus \ {"none"} /\ to # "approved"
  BY DEF OperationStatus
<1> HIDE DEF to
<1> QED
  BY <1>1, <1>2, <1>3, CompareAndSet

\* An approval makes its approver the owner.
LEMMA ApprovedStep ==
    ASSUME IInv, [Next]_vars, NEW o \in Operation, op[o].status # "approved", op'[o].status = "approved"
    PROVE  \E a \in Approver : Owns(a, o)'
<1>0. op \in [Operation -> OperationShape] /\ approver \in [Approver -> ApproverShape]
  BY Zenon DEF IInv, Shape
<1>1. ASSUME NEW x \in Operation, NEW from \in OperationStatus \ {"none"},
             NEW to \in OperationStatus \ {"none"}, UpdateAgentOperationStatus(x, from, to)
      PROVE  x = o /\ op[o].status = from /\ to = "approved"
  BY <1>0, <1>1, CompareAndSet
<1>2. {"pending_approval", "approved", "expired", "rejected", "stale", "succeeded", "failed"}
        \subseteq OperationStatus \ {"none"}
  BY Zenon DEF OperationStatus
<1>3. \A a \in Approver : approver[a].pc \notin {"idle", "done"} => approver[a].op \in Operation
  BY Zenon DEF IInv, OwnerInv, Relies
<1>4. ASSUME NEW a \in Approver PROVE ~Refuse(a) /\ ~Settle(a)
  <2>1. ASSUME Refuse(a) PROVE FALSE
    <3>1. approver[a].op \in Operation /\ approver[a].pc \in {"expired", "rejected", "stale"}
      BY Zenon, <1>3, <2>1 DEF Refuse
    <3>2. UpdateAgentOperationStatus(approver[a].op, "pending_approval", approver[a].pc)
      BY Zenon, <2>1 DEF Refuse
    <3> QED
      BY <1>1, <1>2, <3>1, <3>2
  <2>2. ASSUME Settle(a) PROVE FALSE
    <3>1. approver[a].op \in Operation
      BY Zenon, <1>3, <2>2 DEF Settle
    <3>2. \E to \in {"succeeded", "failed"} : UpdateAgentOperationStatus(approver[a].op, "approved", to)
      BY Zenon, <2>2 DEF Settle
    <3> QED
      BY Zenon, <1>1, <1>2, <3>1, <3>2
  <2> QED
    BY Zenon, <2>1, <2>2
<1>5. ASSUME NEW a \in Approver, Approve(a) PROVE Owns(a, o)'
  <2> DEFINE s == IF op[approver[a].op].kind = "cleanup" THEN "mark" ELSE "execute"
             p == [approver[a] EXCEPT !.pc = s]
  <2>1. approver[a].op \in Operation
    BY Zenon, <1>3, <1>5 DEF Approve
  <2>2. /\ UpdateAgentOperationStatus(approver[a].op, "pending_approval", "approved")
        /\ approver' = [approver EXCEPT ![a] =
             IF op[approver[a].op].status = "pending_approval" THEN p ELSE Done(IdleApprover)]
    BY Zenon, <1>5 DEF Approve
  <2>3. approver[a].op = o /\ op[o].status = "pending_approval"
    BY Zenon, <1>1, <1>2, <2>1, <2>2
  <2>4. p.pc = s /\ p.op = approver[a].op /\ s \in Working
    BY Zenon, <1>0 DEF ApproverShape, Working
  <2> HIDE DEF p, s
  <2> QED
    BY Zenon, <1>0, <2>2, <2>3, <2>4 DEF Owns
<1>6. ASSUME NEW c \in Call PROVE ~CreateAgentOperation(c)
  <2>1. ASSUME CreateAgentOperation(c), NEW x \in Operation, NEW row \in OperationShape,
               row.status = "pending_approval", op' = [op EXCEPT ![x] = row]
        PROVE  FALSE
    BY Zenon, <1>0, <2>1
  <2> QED
    BY Zenon, <2>1, CreateEffect DEF IInv
<1>7. ASSUME NEW x \in Operation PROVE ~BecomesLate(x)
  <2>1. ASSUME BecomesLate(x) PROVE FALSE
    <3>1. [op[x] EXCEPT !.late = TRUE].status = op[x].status
      BY Zenon, <1>0 DEF OperationShape
    <3> QED
      BY <1>0, <2>1, <3>1 DEF BecomesLate
  <2> QED
    BY Zenon, <2>1
<1> QED
  BY ZenonT(40), <1>4, <1>5, <1>6, <1>7
     DEF Next, CallStep, ApproverStep, NoticeStep, RequestChange, RequestCleanup, LinkEvent, Resolve, Inspect,
         InspectFails, MarkRemediating, Execute, Report, Notify, EnablePolicy, Upsert, MarkAnalyzing, Dispatch,
         EndChat, DisablePolicy, AlertTurns, OthersChange, NodeRemoved, Restart, vars

\* Every step leaves everything that shows as being worked on with somebody.
LEMMA OwnedStep ==
    ASSUME IInv, AInv, [Next]_vars, Kept
    PROVE  Owned'
<1>0. /\ approver \in [Approver -> ApproverShape] /\ notice \in [Notice -> NoticeState]
      /\ \A a \in Approver : approver[a].copy \in AlertEvent
  BY Zenon DEF IInv, Shape, ApproverShape
<1> SUFFICES ASSUME ~trouble'
             PROVE  /\ \A o \in Operation : op'[o].status = "approved" => \E a \in Approver : Owns(a, o)'
                    /\ event'.status = "remediating" => \E a \in Approver : Repairs(a)'
                    /\ event'.status = "analyzing" /\ ~switched' => \E n \in Notice : Analyses(n)'
  BY Zenon, SwitchStep DEF Owned
<1>1. ~trouble /\ (~switched' => ~switched)
  BY Zenon, SwitchStep
<1>2. ASSUME NEW o \in Operation, op'[o].status = "approved" PROVE \E a \in Approver : Owns(a, o)'
  <2>1. CASE op[o].status # "approved"
    BY Zenon, <1>2, <2>1, ApprovedStep
  <2>2. CASE op[o].status = "approved"
    <3>1. PICK a \in Approver : Owns(a, o)
      BY Zenon, <1>1, <2>2 DEF AInv, Owned
    <3>2. ~Settle(a)
      BY Zenon, <1>2, <3>1, SettledStep DEF Owns
    <3> QED
      BY Zenon, <3>1, <3>2, OwnerMoves
  <2> QED
    BY Zenon, <2>1, <2>2
<1>3. ASSUME event'.status \in {"remediating", "analyzing"}, \E n \in Notice : Upsert(n)
      PROVE  event'.status = event.status
  <2>1. PICK n \in Notice : Upsert(n)
    BY Zenon, <1>3
  <2>2. notice[n].state \in {"firing", "resolved"}
    BY Zenon, <1>0 DEF NoticeState
  <2>3. event' = event \/ event' = Upserted(event, notice[n].state)
    BY Zenon, <2>1 DEF Upsert
  <2> QED
    BY Zenon, <1>3, <2>2, <2>3, UpsertedRow
<1>4. ASSUME event'.status = "remediating" PROVE \E a \in Approver : Repairs(a)'
  <2>1. CASE event.status = "remediating"
    <3>1. PICK a \in Approver : Repairs(a)
      BY Zenon, <1>1, <2>1 DEF AInv, Owned
    <3>2. ~Report(a)
      <4>1. ASSUME Report(a) PROVE FALSE
        <5>1. PICK s \in {"firing", "failed"} : event' = [approver[a].copy EXCEPT !.status = s]
          BY Zenon, <4>1 DEF Report, SaveEvent, TroubleOccurs
        <5>2. event'.status = s
          BY Zenon, <1>0, <5>1 DEF AlertEvent
        <5> QED
          BY Zenon, <1>4, <5>2
      <4> QED
        BY Zenon, <4>1
    <3> QED
      BY Zenon, <3>1, <3>2, RepairerMoves
  <2>2. CASE event.status # "remediating"
    <3>1. PICK a \in Approver : MarkRemediating(a)
      BY <1>3, <1>4, <2>2, SavesStep
    <3> DEFINE p == [approver[a] EXCEPT !.pc = "execute",
                                        !.copy = [approver[a].copy EXCEPT !.status = "remediating"]]
    <3>2. p.pc = "execute" /\ p.op = approver[a].op /\ approver'[a] = p /\ approver[a].pc = "mark" /\ UNCHANGED op
      BY Zenon, <1>0, <3>1 DEF ApproverShape, MarkRemediating
    <3>3. op[approver[a].op].kind = "cleanup"
      BY Zenon, <3>2 DEF AInv, Carried, ApproverOK
    <3> QED
      BY Zenon, <3>2, <3>3 DEF Repairs
  <2> QED
    BY Zenon, <2>1, <2>2
<1>5. ASSUME event'.status = "analyzing", ~switched' PROVE \E n \in Notice : Analyses(n)'
  <2>1. CASE event.status = "analyzing"
    <3>1. PICK n \in Notice : Analyses(n)
      BY Zenon, <1>1, <1>5, <2>1 DEF AInv, Owned
    <3> QED
      BY Zenon, <1>5, <3>1, AnalystMoves
  <2>2. CASE event.status # "analyzing"
    <3>1. PICK n \in Notice :
            notice' = [notice EXCEPT ![n] = [@ EXCEPT !.pc = "dispatch", !.copy = event']]
            \/ notice' = [notice EXCEPT ![n] = [@ EXCEPT !.pc = "chat", !.copy = event']]
      BY Zenon, <1>3, <1>5, <2>2, SavesStep
    <3>2. \A s : [notice[n] EXCEPT !.pc = s, !.copy = event'].pc = s
      BY <1>0 DEF NoticeState
    <3>3. notice'[n].pc \in {"dispatch", "chat"}
      BY Zenon, <1>0, <3>1, <3>2
    <3> QED
      BY <3>3 DEF Analyses
  <2> QED
    BY Zenon, <2>1, <2>2
<1> QED
  BY Zenon, <1>2, <1>4, <1>5

-----------------------------------------------------------------------------
\* Initially there is no alert, nothing is counted and nobody is at work.
LEMMA AInvInit == Init => AInv
<1> SUFFICES ASSUME Init PROVE AInv
  OBVIOUS
<1>1. /\ \A c \in Call : call[c] = IdleCall
      /\ \A a \in Approver : approver[a] = IdleApprover
      /\ \A n \in Notice : notice[n] = IdleNotice
  BY DEF Init
<1>2. \A o \in Operation : op[o].status = "none" /\ op[o].version = 0 /\ runs[o] = 0 /\ hit[o] = {}
  BY Zenon DEF Init
<1>3. Carried
  BY <1>1, Ended DEF Carried
<1>4. ~HoldsCopy
  BY <1>1 DEF HoldsCopy, IdleCall, IdleApprover, IdleNotice
<1>5. Counted
  <2>1. surprises = 0 /\ \A k \in {"scale", "pull"} : version[k] = 0
    BY Zenon DEF Init
  <2> QED
    BY <1>2, <2>1, Ended, RanBound, ConstantsAssumption DEF Counted
<1>6. Flags
  BY Zenon DEF Init, Flags
<1>7. Tracked
  BY Zenon, <1>2, <1>4 DEF Init, Tracked, NoEvent
<1>8. Owned
  BY <1>2 DEF Init, Owned, NoEvent
<1> QED
  BY <1>3, <1>5, <1>6, <1>7, <1>8 DEF AInv

\* Every step keeps the invariant of the alert.
LEMMA AInvStep == IInv /\ AInv /\ [Next]_vars => AInv'
<1> SUFFICES ASSUME IInv, AInv, [Next]_vars PROVE AInv'
  OBVIOUS
<1>1. Kept
  BY Zenon, IInvStep
<1>2. Carried'
  BY <1>1, CallsStep, ApproversStep, NoticesStep DEF Carried
<1> QED
  BY <1>1, <1>2, CountedStep, FlagsStep, TrackedStep, OwnedStep DEF AInv

\* The invariant of the alert always holds.
LEMMA AInvAlways == Spec => []AInv
BY AInvInit, AInvStep, IInvAlways, PTL DEF Spec

\* The two invariants make every row and process of its type.
LEMMA Typed == IInv /\ AInv => TypeOK
<1> SUFFICES ASSUME IInv, AInv PROVE TypeOK
  OBVIOUS
<1>1. Shape /\ Carried /\ Counted /\ Flags
  BY Zenon DEF IInv, AInv
<1>2. op \in [Operation -> OperationRow]
  BY Zenon, <1>1 DEF Shape, Counted, OperationShape, OperationRow
<1>3. call \in [Call -> CallState]
  BY Zenon, <1>1 DEF Shape, Carried, CallOK, CallShape, CallState
<1>4. approver \in [Approver -> ApproverState]
  BY Zenon, <1>1 DEF Shape, Carried, ApproverOK, ApproverShape, ApproverState
<1>5. version \in [{"scale", "pull"} -> Versions]
  BY Zenon, <1>1, VersionFits DEF Shape
<1>6. hit \in [Operation -> SUBSET Versions]
  BY <1>1 DEF Shape, Counted
<1> QED
  BY <1>1, <1>2, <1>3, <1>4, <1>5, <1>6 DEF TypeOK, Shape, Flags, Counted

\* Nothing that was started is lost sight of, for any number of requests,
\* administrators, notifications and surprises: what the Runtime is told of the
\* alert is what the last notification said unless the two crossed, and an
\* operation, a repair or an analysis that shows as under way has a process that
\* will say how it went (UpsertAlertEvent, PersistAndDispatch, Dispatch, resolve).
THEOREM Accounted == Spec => []NothingForgotten
<1>1. IInv /\ AInv => NothingForgotten
  <2> SUFFICES ASSUME IInv, AInv PROVE NothingForgotten
    OBVIOUS
  <2>1. AlertStateTracks
    BY Zenon DEF AInv, Tracked, AlertStateTracks, AlertState
  <2>2. WorkHasOwner
    BY DEF AInv, Owned, Owns, Repairs, Analyses, Working, WorkHasOwner
  <2> QED
    BY <2>1, <2>2, Typed DEF NothingForgotten
<1> QED
  BY <1>1, IInvAlways, AInvAlways, PTL
=============================================================================
