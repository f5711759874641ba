------------------------- MODULE PlatformLiveProofs -------------------------
(***************************************************************************)
(* Proofs about what goes on inside one process of the platform, for every *)
(* value of the constants: the releases of the platform itself (type       *)
(* correctness, DeploymentRecorded and SucceededDeployed), requests for    *)
(* the dashboard that share a refresh, and terminals (SharedApart); and of *)
(* the webhook that asks for releases, whose repeated delivery starts one  *)
(* (DeliveredOnce).                                                        *)
(*                                                                         *)
(* Neither DeploymentRecorded nor SucceededDeployed is inductive: what a   *)
(* thread will write depends on what it read steps ago. ThreadInv says     *)
(* what each thread may still rely on.                                     *)
(***************************************************************************)
EXTENDS MCPlatformLive, PlatformWebhook, TLAPS

-----------------------------------------------------------------------------
(* The webhook.                                                            *)

\* The places of a handler, and a handler that holds the nonce of a delivery.
Pcs == {"idle", "image", "expire", "nonce", "create"}
Creates(s, d) == handlers[s] = [pc |-> "create", delivery |-> d]

\* The timestamp is within reach of the clock: ValidateWebhook would let it pass.
Timely(d) == sent[d] # Null /\ sent[d].ts - clock <= Skew /\ clock - sent[d].ts <= Skew

Shape ==
    /\ clock \in 0 .. MaxTime /\ secret \in 0 .. MaxKeys /\ prefixes \subseteq Prefixes
    /\ handlers \in [Handlers -> [pc : Pcs, delivery : Deliveries \cup {Null}]]
    /\ nonces \in [Deliveries -> (0 .. MaxTime + TTL) \cup {Null}]
    /\ releases \in [Deliveries -> {0, 1}]
    /\ sent = [d \in Deliveries |-> sent[d]]
    /\ \A d \in Deliveries : sent[d] # Null => sent[d].ts \in Int
    /\ receipts \in 0 .. MaxReceipts /\ failures \in 0 .. MaxFailures

\* A request at work is one whose timestamp is good; the clock stands still for it.
AtWork == \A s \in Handlers : handlers[s].pc # "idle" => handlers[s].delivery \in Deliveries /\ Timely(handlers[s].delivery)

\* A nonce outlives the timestamp it was sent with.
Outlives ==
    \A d \in Deliveries : nonces[d] # Null =>
        /\ sent[d] # Null /\ nonces[d] >= sent[d].ts - Skew + TTL
        /\ releases[d] = 1 \/ d \in failed \/ \E s \in Handlers : Creates(s, d)

\* What was let through is remembered, or came so long ago that it is not let through again.
Remembered ==
    \A d \in Deliveries :
        (releases[d] = 1 \/ \E s \in Handlers : Creates(s, d)) =>
            sent[d] # Null /\ (nonces[d] # Null \/ clock - sent[d].ts > Skew)

\* One handler at most creates the release, and only the first.
Alone ==
    \A s \in Handlers : handlers[s].pc = "create" =>
        /\ releases[handlers[s].delivery] = 0
        /\ \A o \in Handlers : handlers[o].pc = "create" /\ handlers[o].delivery = handlers[s].delivery => o = s

WebhookInv == Shape /\ AtWork /\ Outlives /\ Remembered /\ Alone

\* A handler changes its own slot only.
LEMMA HandlerMoves ==
    ASSUME Shape, NEW s \in Handlers, NEW r \in [pc : Pcs, delivery : Deliveries \cup {Null}], handlers' = [handlers EXCEPT ![s] = r]
    PROVE  /\ handlers' \in [Handlers -> [pc : Pcs, delivery : Deliveries \cup {Null}]]
           /\ handlers'[s] = r
           /\ \A o \in Handlers \ {s} : handlers'[o] = handlers[o]
BY DEF Shape

\* Advance and Respond put a record into the handler's slot.
LEMMA Handler ==
    ASSUME Shape, NEW s \in Handlers, NEW p \in Pcs
    PROVE  /\ Advance(s, p) => handlers' = [handlers EXCEPT ![s] = [pc |-> p, delivery |-> handlers[s].delivery]]
           /\ [pc |-> p, delivery |-> handlers[s].delivery] \in [pc : Pcs, delivery : Deliveries \cup {Null}]
           /\ Respond(s) => handlers' = [handlers EXCEPT ![s] = Free]
           /\ Free \in [pc : Pcs, delivery : Deliveries \cup {Null}]
<1>1. handlers[s] \in [pc : Pcs, delivery : Deliveries \cup {Null}]
  BY DEF Shape
<1>2. [handlers[s] EXCEPT !.pc = p] = [pc |-> p, delivery |-> handlers[s].delivery]
  BY <1>1
<1>3. Free \in [pc : Pcs, delivery : Deliveries \cup {Null}]
  BY DEF Free, Pcs
<1> QED
  BY <1>1, <1>2, <1>3 DEF Advance, Respond

\* A handler that neither creates a release nor is about to, and goes on or answers.
LEMMA QuietMove ==
    ASSUME WebhookInv, NEW s \in Handlers, handlers[s].pc \notin {"idle", "create"},
           (\E p \in {"expire", "nonce"} : Advance(s, p)) \/ Respond(s),
           UNCHANGED <<clock, sent, releases, failed>>
    PROVE  /\ handlers' \in [Handlers -> [pc : Pcs, delivery : Deliveries \cup {Null}]]
           /\ AtWork' /\ Alone'
           /\ \A o \in Handlers, d \in Deliveries : Creates(o, d)' <=> Creates(o, d)
<1>1. PICK r \in [pc : Pcs, delivery : Deliveries \cup {Null}] :
        /\ handlers' = [handlers EXCEPT ![s] = r]
        /\ r = Free \/ (r.delivery = handlers[s].delivery /\ r.pc \in {"expire", "nonce"})
  <2>1. CASE Respond(s)
    BY <2>1, Handler DEF WebhookInv, Pcs
  <2>2. ASSUME NEW p \in {"expire", "nonce"}, Advance(s, p)
        PROVE  /\ handlers' = [handlers EXCEPT ![s] = [pc |-> p, delivery |-> handlers[s].delivery]]
               /\ [pc |-> p, delivery |-> handlers[s].delivery] \in [pc : Pcs, delivery : Deliveries \cup {Null}]
    BY <2>2, Handler DEF WebhookInv, Pcs
  <2> QED
    BY Zenon, <2>1, <2>2
<1>2. /\ handlers' \in [Handlers -> [pc : Pcs, delivery : Deliveries \cup {Null}]]
      /\ handlers'[s] = r
      /\ \A o \in Handlers \ {s} : handlers'[o] = handlers[o]
  BY Zenon, <1>1, HandlerMoves DEF WebhookInv
<1>3. AtWork'
  BY <1>1, <1>2 DEF WebhookInv, AtWork, Timely, Free
<1>4. Alone'
  BY <1>1, <1>2 DEF WebhookInv, Alone, Free
<1>5. \A o \in Handlers, d \in Deliveries : Creates(o, d)' <=> Creates(o, d)
  BY <1>1, <1>2 DEF Creates, Free
<1> QED
  BY <1>2, <1>3, <1>4, <1>5

\* No delivery was signed yet.
LEMMA WebhookInvInit == WebhookInit => WebhookInv
BY WebhookAssumption DEF WebhookInit, WebhookInv, Shape, AtWork, Outlives, Remembered, Alone, Free, Pcs, Creates

\* Every step of a handler, of a build, of an administrator and of the clock keeps it.
LEMMA WebhookInvStep == WebhookInv /\ [WebhookNext]_webhookVars => WebhookInv'
<1> SUFFICES ASSUME WebhookInv, [WebhookNext]_webhookVars PROVE WebhookInv'
  OBVIOUS
<1> USE WebhookAssumption DEF WebhookInv
<1>1. CASE UNCHANGED webhookVars
  BY <1>1 DEF webhookVars, Shape, AtWork, Outlives, Remembered, Alone, Creates, Timely
<1>2. CASE GenerateWebhookSecret
  BY <1>2 DEF GenerateWebhookSecret, Shape, AtWork, Outlives, Remembered, Alone, Creates, Timely
<1>3. CASE Tick
  <2> USE <1>3 DEF Tick
  <2>1. Shape'
    BY DEF Shape
  <2>2. AtWork' /\ Alone'
    BY DEF AtWork, Alone, Free
  <2>3. Outlives' /\ Remembered'
    BY DEF Outlives, Remembered, Creates, Shape
  <2> QED
    BY Zenon, <2>1, <2>2, <2>3
<1>4. ASSUME NEW allowed \in SUBSET Prefixes, SetImagePrefixes(allowed) PROVE WebhookInv'
  BY <1>4 DEF SetImagePrefixes, Shape, AtWork, Outlives, Remembered, Alone, Creates, Timely
<1>5. ASSUME NEW d \in Deliveries, NEW p \in Prefixes, NEW ts \in clock - Skew .. clock + Skew, Sign(d, ts, p)
      PROVE  WebhookInv'
  <2> USE <1>5 DEF Sign
  <2>1. \A e \in Deliveries : sent[e] # Null => sent'[e] = sent[e]
    BY DEF Shape
  <2>2. Shape'
    <3>1. \A e \in Deliveries : sent'[e] # Null => sent'[e].ts \in Int
      <4>1. ts \in Int
        BY DEF Shape
      <4> QED
        BY <4>1 DEF Shape
    <3> QED
      BY <3>1 DEF Shape
  <2>3. AtWork'
    BY <2>1 DEF AtWork, Timely
  <2>4. Outlives' /\ Remembered' /\ Alone'
    BY <2>1 DEF Outlives, Remembered, Alone, Creates
  <2> QED
    BY Zenon, <2>2, <2>3, <2>4
<1>6. ASSUME NEW s \in Handlers, NEW d \in Deliveries, Webhook(s, d) PROVE WebhookInv'
  <2> USE <1>6 DEF Webhook
  <2>1. CASE UNCHANGED handlers
    BY <2>1 DEF Shape, AtWork, Outlives, Remembered, Alone, Creates, Timely
  <2>2. CASE ~UNCHANGED handlers
    <3> DEFINE r == [pc |-> "image", delivery |-> d]
    <3>1. handlers' = [handlers EXCEPT ![s] = r] /\ ValidateWebhook(d)
      BY Zenon, <2>2
    <3>2. r \in [pc : Pcs, delivery : Deliveries \cup {Null}]
      BY DEF Pcs
    <3>3. /\ handlers' \in [Handlers -> [pc : Pcs, delivery : Deliveries \cup {Null}]]
          /\ handlers'[s] = r
          /\ \A o \in Handlers \ {s} : handlers'[o] = handlers[o]
      BY Zenon, <3>1, <3>2, HandlerMoves
    <3>4. Shape'
      BY <3>3 DEF Shape
    <3>5. AtWork'
      BY Zenon, <3>1, <3>3 DEF AtWork, Timely, ValidateWebhook
    <3>6. \A o \in Handlers, e \in Deliveries : Creates(o, e)' <=> Creates(o, e)
      BY <3>3 DEF Creates, Free
    <3>7. Outlives' /\ Remembered'
      BY <3>6 DEF Outlives, Remembered
    <3>8. Alone'
      BY <3>3 DEF Alone
    <3> QED
      BY Zenon, <3>4, <3>5, <3>7, <3>8
  <2> QED
    BY <2>1, <2>2
<1>7. ASSUME NEW s \in Handlers, ValidateImage(s) PROVE WebhookInv'
  <2> USE <1>7 DEF ValidateImage
  <2>1. /\ failures' \in 0 .. MaxFailures
        /\ (\E p \in {"expire", "nonce"} : Advance(s, p)) \/ Respond(s)
    BY DEF Fault, Shape
  <2>2. /\ handlers' \in [Handlers -> [pc : Pcs, delivery : Deliveries \cup {Null}]]
        /\ AtWork' /\ Alone'
        /\ \A o \in Handlers, d \in Deliveries : Creates(o, d)' <=> Creates(o, d)
    BY Zenon, <2>1, QuietMove
  <2>3. Shape'
    BY <2>1, <2>2 DEF Shape
  <2>4. Outlives' /\ Remembered'
    BY Zenon, <2>2 DEF Outlives, Remembered
  <2> QED
    BY Zenon, <2>2, <2>3, <2>4
<1>8. ASSUME NEW s \in Handlers, DeleteExpiredPlatformWebhookNonces(s) PROVE WebhookInv'
  <2> USE <1>8 DEF DeleteExpiredPlatformWebhookNonces
  <2>1. /\ failures' \in 0 .. MaxFailures
        /\ (\E p \in {"expire", "nonce"} : Advance(s, p)) \/ Respond(s)
    BY DEF Fault, Shape
  <2>2. /\ handlers' \in [Handlers -> [pc : Pcs, delivery : Deliveries \cup {Null}]]
        /\ AtWork' /\ Alone'
        /\ \A o \in Handlers, d \in Deliveries : Creates(o, d)' <=> Creates(o, d)
    BY <2>1, QuietMove
  <2>3. /\ nonces' \in [Deliveries -> (0 .. MaxTime + TTL) \cup {Null}]
        /\ \A d \in Deliveries : nonces'[d] = nonces[d] \/ (nonces'[d] = Null /\ Expired(d))
    BY DEF Shape
  <2>4. Shape'
    BY <2>1, <2>2, <2>3 DEF Shape
  <2>5. Outlives'
    BY Zenon, <2>2, <2>3 DEF Outlives
  <2>6. Remembered'
    <3>1. ASSUME NEW d \in Deliveries, Expired(d) PROVE clock - sent[d].ts > Skew
      <4>1. /\ nonces[d] <= clock /\ nonces[d] >= sent[d].ts - Skew + TTL
            /\ nonces[d] \in Int /\ sent[d].ts \in Int /\ clock \in Int
        BY <3>1 DEF Expired, Outlives, Shape
      <4> QED
        BY <4>1
    <3> QED
      BY Zenon, <2>2, <2>3, <3>1 DEF Remembered
  <2> QED
    BY Zenon, <2>2, <2>4, <2>5, <2>6
<1>9. ASSUME NEW s \in Handlers, CreatePlatformWebhookNonce(s) PROVE WebhookInv'
  <2> USE <1>9 DEF CreatePlatformWebhookNonce
  <2>0. PICK d \in Deliveries : d = handlers[s].delivery
    BY Zenon DEF AtWork
  <2> USE <2>0
  <2>1. CASE Respond(s) /\ UNCHANGED nonces
    <3>1. failures' \in 0 .. MaxFailures
      BY DEF Fault, Shape
    <3>2. /\ handlers' \in [Handlers -> [pc : Pcs, delivery : Deliveries \cup {Null}]]
          /\ AtWork' /\ Alone'
          /\ \A o \in Handlers, e \in Deliveries : Creates(o, e)' <=> Creates(o, e)
      BY Zenon, <2>1, QuietMove
    <3>3. Shape'
      BY <2>1, <3>1, <3>2 DEF Shape
    <3>4. Outlives' /\ Remembered'
      BY Zenon, <2>1, <3>2 DEF Outlives, Remembered
    <3> QED
      BY Zenon, <3>2, <3>3, <3>4
  <2>2. CASE NonceFree(d) /\ nonces' = [nonces EXCEPT ![d] = clock + TTL] /\ Advance(s, "create") /\ UNCHANGED failures
    <3>1. d \in Deliveries /\ Timely(d)
      BY Zenon DEF AtWork
    <3>2. releases[d] = 0 /\ \A o \in Handlers : handlers[o].pc = "create" => handlers[o].delivery # d
      <4>1. \A o \in Handlers : handlers[o].pc = "create" /\ handlers[o].delivery = d => Creates(o, d)
        BY DEF Creates, Shape
      <4>2. ~(clock - sent[d].ts > Skew)
        BY <3>1 DEF Timely, Shape
      <4> QED
        BY <2>2, <3>1, <4>1, <4>2 DEF Remembered, NonceFree, Shape
    <3>3. /\ handlers' = [handlers EXCEPT ![s] = [pc |-> "create", delivery |-> d]]
          /\ [pc |-> "create", delivery |-> d] \in [pc : Pcs, delivery : Deliveries \cup {Null}]
      BY <2>2, Handler DEF Pcs
    <3>4. /\ handlers' \in [Handlers -> [pc : Pcs, delivery : Deliveries \cup {Null}]]
          /\ handlers'[s] = [pc |-> "create", delivery |-> d]
          /\ \A o \in Handlers \ {s} : handlers'[o] = handlers[o]
      BY Zenon, <3>3, HandlerMoves
    <3>5. /\ nonces' \in [Deliveries -> (0 .. MaxTime + TTL) \cup {Null}]
          /\ nonces'[d] = clock + TTL /\ clock + TTL # Null
          /\ \A e \in Deliveries \ {d} : nonces'[e] = nonces[e]
      BY <2>2, <3>1 DEF Shape
    <3>6. Shape'
      BY <2>2, <3>4, <3>5 DEF Shape
    <3>7. AtWork'
      BY <3>1, <3>4 DEF AtWork, Timely
    <3>8. Alone'
      BY <3>2, <3>4 DEF Alone
    <3>9. /\ Creates(s, d)'
          /\ \A e \in Deliveries \ {d}, o \in Handlers : Creates(o, e)' <=> Creates(o, e)
      BY <3>4 DEF Creates
    <3>10. Outlives'
      <4>1. nonces'[d] >= sent[d].ts - Skew + TTL
        BY <3>1, <3>5 DEF Timely, Shape
      <4>2. \A e \in Deliveries \ {d} : (\E o \in Handlers : Creates(o, e)) => \E o \in Handlers : Creates(o, e)'
        BY Zenon, <3>9
      <4> QED
        <5>1. ASSUME NEW e \in Deliveries, nonces'[e] # Null
              PROVE  /\ sent'[e] # Null /\ nonces'[e] >= sent'[e].ts - Skew + TTL
                     /\ releases'[e] = 1 \/ e \in failed' \/ \E o \in Handlers : Creates(o, e)'
          <6>1. CASE e = d
            BY Zenon, <6>1, <3>1, <3>9, <4>1 DEF Timely
          <6>2. CASE e # d
            BY Zenon, <6>2, <5>1, <3>5, <4>2 DEF Outlives
          <6> QED
            BY <6>1, <6>2
        <5> QED
          BY Zenon, <5>1 DEF Outlives
    <3>11. Remembered'
      BY Zenon, <3>1, <3>5, <3>9 DEF Remembered, Timely
    <3> QED
      BY Zenon, <3>6, <3>7, <3>8, <3>10, <3>11
  <2> QED
    BY Zenon, <2>1, <2>2
<1>10. ASSUME NEW s \in Handlers, StartRelease(s) PROVE WebhookInv'
  <2> USE <1>10 DEF StartRelease
  <2>0. PICK d \in Deliveries : d = handlers[s].delivery
    BY DEF AtWork
  <2> USE <2>0
  <2>1. d \in Deliveries /\ Timely(d) /\ releases[d] = 0 /\ Creates(s, d)
    BY DEF AtWork, Alone, Creates, Shape
  <2>2. /\ handlers' \in [Handlers -> [pc : Pcs, delivery : Deliveries \cup {Null}]]
        /\ handlers'[s] = Free
        /\ \A o \in Handlers \ {s} : handlers'[o] = handlers[o]
    BY Handler, HandlerMoves DEF Pcs
  <2>3. /\ releases' \in [Deliveries -> {0, 1}] /\ failures' \in 0 .. MaxFailures
        /\ \A e \in Deliveries \ {d} : releases'[e] = releases[e]
        /\ failed \subseteq failed' /\ (releases'[d] = 1 \/ d \in failed')
    BY <2>1 DEF Shape, Fault
  <2>4. Shape'
    BY <2>2, <2>3 DEF Shape
  <2>5. AtWork'
    BY <2>2 DEF AtWork, Timely, Free
  <2>6. Alone'
    <3>1. \A o \in Handlers \ {s} : handlers[o].pc = "create" => handlers[o].delivery \in Deliveries \ {d}
      BY Zenon, <2>1 DEF AtWork, Alone
    <3> QED
      BY <2>2, <2>3, <3>1 DEF Alone, Free
  <2>7. \A o \in Handlers, e \in Deliveries : e # d => (Creates(o, e)' <=> Creates(o, e))
    BY <2>2 DEF Creates, Free
  <2>8. Outlives' /\ Remembered'
    BY Zenon, <2>1, <2>3, <2>7 DEF Outlives, Remembered
  <2> QED
    BY <2>4, <2>5, <2>6, <2>8
<1> QED
  BY Zenon, <1>1, <1>2, <1>3, <1>4, <1>5, <1>6, <1>7, <1>8, <1>9, <1>10 DEF WebhookNext

\* However often a delivery arrives, and whenever its nonce is forgotten, it starts one
\* release; a nonce that is stored belongs to a release, to a handler that is about to
\* create it, or to one that failed (ValidateWebhook, ConsumeWebhookNonce and Webhook).
THEOREM Delivered == WebhookSpec => []DeliveredOnce
<1>1. WebhookInv => DeliveredOnce
  <2>1. Shape => \A d \in Deliveries : releases[d] <= 1
    <3>1. Shape => \A d \in Deliveries : releases[d] \in {0, 1}
      BY Zenon DEF Shape
    <3>2. \A n \in {0, 1} : n <= 1
      OBVIOUS
    <3> QED
      BY Zenon, <3>1, <3>2
  <2>2. ASSUME WebhookInv, NEW d \in Deliveries, nonces[d] # Null
        PROVE  releases[d] = 1 \/ d \in failed \/ \E s \in Handlers : handlers[s] = [pc |-> "create", delivery |-> d]
    <3>1. releases[d] = 1 \/ d \in failed \/ \E s \in Handlers : Creates(s, d)
      BY Zenon, <2>2 DEF WebhookInv, Outlives
    <3> QED
      BY Zenon, <3>1 DEF Creates
  <2>3. WebhookInv => Shape
    BY DEF WebhookInv
  <2> QED
    BY Zenon, <2>1, <2>2, <2>3 DEF DeliveredOnce
<1> QED
  BY <1>1, WebhookInvInit, WebhookInvStep, PTL DEF WebhookSpec

-----------------------------------------------------------------------------
(* Releases of the platform.                                               *)

\* What a thread that works on a record may rely on, wherever it stands.
ThreadOK(th, rows, dep) ==
    /\ th.pc = "insert" => th.image \in Image /\ th.previous \in Image
    /\ th.pc \in {"apply", "update", "applied", "decide", "save"} =>
           th.id \in Release /\ rows[th.id].status # "absent"
    /\ th.pc \in {"update", "applied"} => rows[th.id].status # "accepted"
    /\ th.pc = "applied" => th.status \in {"waiting_ready", "failed"}
    /\ th.pc = "save" => th.status \in Complete
    /\ th.pc = "save" /\ th.status = "succeeded" => th.id \in dep

ThreadInv == \A t \in Thread : ThreadOK(thread[t], row, deployed)

RowsInv ==
    \A r \in Release : row[r].status # "absent" => row[r].image \in Image /\ row[r].previous \in Image

AnnotationInv == deploy.release # 0 => deploy.release \in deployed

IInv == TypeOK /\ ThreadInv /\ RowsInv /\ AnnotationInv /\ DeploymentRecorded /\ SucceededDeployed

\* Records are never dropped, keep their images, and do not return to "accepted".
Progress ==
    /\ deployed \subseteq deployed'
    /\ \A r \in Release :
          /\ row[r].status # "absent" => row'[r].status # "absent" /\ row'[r].image = row[r].image
                                                                   /\ row'[r].previous = row[r].previous
          /\ row[r].status \notin {"absent", "accepted"} => row'[r].status # "accepted"

\* A thread's knowledge survives the steps of the others.
LEMMA ThreadKeeps ==
    ASSUME Progress, NEW th \in ThreadRecord, ThreadOK(th, row, deployed)
    PROVE  ThreadOK(th, row', deployed')
BY DEF Progress, ThreadOK, ThreadRecord

\* Saving a status (SetStatus) changes one field of one record.
LEMMA StatusSaved ==
    ASSUME TypeOK, NEW r \in Release, NEW s \in Status, SetStatus(r, s)
    PROVE  /\ row' \in [Release -> RowRecord]
           /\ row'[r].status = s
           /\ \A x \in Release : x # r => row'[x] = row[x]
           /\ \A x \in Release : row'[x].image = row[x].image /\ row'[x].previous = row[x].previous
<1>1. row[r] \in RowRecord
  BY DEF TypeOK
<1>2. [row[r] EXCEPT !.status = s] \in RowRecord
  BY <1>1 DEF RowRecord
<1>3. row' = [row EXCEPT ![r] = [row[r] EXCEPT !.status = s]]
  BY DEF SetStatus
<1>4. /\ row' \in [Release -> RowRecord]
      /\ row'[r] = [row[r] EXCEPT !.status = s]
      /\ \A x \in Release : x # r => row'[x] = row[x]
  BY <1>2, <1>3 DEF TypeOK
<1>5. /\ [row[r] EXCEPT !.status = s].status = s
      /\ [row[r] EXCEPT !.status = s].image = row[r].image
      /\ [row[r] EXCEPT !.status = s].previous = row[r].previous
  BY <1>1 DEF RowRecord
<1> QED BY Zenon, <1>4, <1>5

\* Saving a status other than "accepted" is progress, and keeps the images.
LEMMA StatusProgress ==
    ASSUME TypeOK, RowsInv, NEW r \in Release, NEW s \in Status \ {"absent", "accepted"}, NEW w,
           row[r].status # "absent", SaveStatus(r, s, w), deployed' = deployed
    PROVE  /\ row' \in [Release -> RowRecord]
           /\ Progress
           /\ RowsInv'
           /\ \A x \in Release : x # r => row'[x] = row[x]
           /\ \A x \in Release : row'[x].image = row[x].image
           /\ row'[r].status \in {s, row[r].status}
<1>1. CASE w = "ok"
  <2>1. SetStatus(r, s)
    BY <1>1 DEF SaveStatus
  <2>2. s \in Status
    OBVIOUS
  <2>3. /\ row' \in [Release -> RowRecord]
        /\ row'[r].status = s
        /\ \A x \in Release : x # r => row'[x] = row[x]
        /\ \A x \in Release : row'[x].image = row[x].image /\ row'[x].previous = row[x].previous
    BY <2>1, <2>2, StatusSaved
  <2> QED BY <2>3 DEF Progress, RowsInv
<1>2. CASE w # "ok"
  BY <1>2 DEF SaveStatus, Progress, RowsInv, TypeOK
<1> QED BY <1>1, <1>2

\* A thread that goes on, or leaves, stays well formed.
LEMMA ThreadMoves ==
    ASSUME TypeOK, NEW t \in Thread, NEW th \in ThreadRecord, thread' = [thread EXCEPT ![t] = th]
    PROVE  /\ thread' \in [Thread -> ThreadRecord]
           /\ thread'[t] = th
           /\ \A u \in Thread : u # t => thread'[u] = thread[u]
BY DEF TypeOK

\* ThreadInv follows from what the moving thread may rely on and Progress.
LEMMA ThreadInvStep ==
    ASSUME TypeOK, ThreadInv, Progress, NEW t \in Thread, NEW th \in ThreadRecord,
           thread' = [thread EXCEPT ![t] = th], ThreadOK(th, row', deployed')
    PROVE  ThreadInv' /\ thread' \in [Thread -> ThreadRecord]
<1>1. /\ thread' \in [Thread -> ThreadRecord] /\ thread'[t] = th
      /\ \A u \in Thread : u # t => thread'[u] = thread[u]
  BY Zenon, ThreadMoves
<1>2. ASSUME NEW u \in Thread, u # t PROVE ThreadOK(thread'[u], row', deployed')
  <2>1. thread[u] \in ThreadRecord /\ ThreadOK(thread[u], row, deployed)
    BY DEF TypeOK, ThreadInv
  <2> QED BY <2>1, <1>1, <1>2, ThreadKeeps
<1> QED BY <1>1, <1>2 DEF ThreadInv

\* The idle record is well formed and relies on nothing.
LEMMA IdleOK == Idle \in ThreadRecord /\ ThreadOK(Idle, row', deployed')
BY ConstantsAssumption DEF Idle, ThreadRecord, ThreadOK, Status

\* The counters stay within their bounds.
LEMMA Costs ==
    ASSUME TypeOK, NEW w
    PROVE  /\ w \in Write /\ WriteCost(w) => used' \in [faults: 0..MaxFaults, db: 0..MaxDBFaults, crashes: 0..MaxCrashes]
           /\ w \in Call /\ CallCost(w) => used' \in [faults: 0..MaxFaults, db: 0..MaxDBFaults, crashes: 0..MaxCrashes]
           /\ used.faults < MaxFaults /\ CallCost("refused") =>
                  used' \in [faults: 0..MaxFaults, db: 0..MaxDBFaults, crashes: 0..MaxCrashes]
BY ConstantsAssumption DEF TypeOK, Write, Call, WriteCost, CallCost

\* Lock, and Decide's Apply, move a thread and keep its record.
LEMMA MovedPc ==
    ASSUME NEW th \in ThreadRecord, NEW place \in {"apply", "update"}
    PROVE  /\ [th EXCEPT !.pc = place] \in ThreadRecord
           /\ [th EXCEPT !.pc = place].pc = place
           /\ [th EXCEPT !.pc = place].id = th.id
BY DEF ThreadRecord

\* A thread that is about to save carries the status.
LEMMA MovedStatus ==
    ASSUME NEW th \in ThreadRecord, NEW place \in {"applied", "save"}, NEW s \in Status
    PROVE  /\ [th EXCEPT !.pc = place, !.status = s] \in ThreadRecord
           /\ [th EXCEPT !.pc = place, !.status = s].pc = place
           /\ [th EXCEPT !.pc = place, !.status = s].id = th.id
           /\ [th EXCEPT !.pc = place, !.status = s].status = s
BY Zenon DEF ThreadRecord

\* A request goes on to Apply with the record it inserted.
LEMMA MovedApply ==
    ASSUME NEW th \in ThreadRecord, NEW r \in Release
    PROVE  /\ [Idle EXCEPT !.pc = "apply", !.id = r] \in ThreadRecord
           /\ [Idle EXCEPT !.pc = "apply", !.id = r].pc = "apply"
           /\ [Idle EXCEPT !.pc = "apply", !.id = r].id = r
<1>1. r \in 0..MaxId
  BY ConstantsAssumption DEF Release
<1> QED BY Zenon, <1>1 DEF ThreadRecord, Idle, Status

\* ReadStatus: a request notes the image to deploy and the one that runs.
LEMMA ReadStatusStep ==
    ASSUME IInv, NEW t \in Thread, NEW i \in Image, ReadStatus(t, i)
    PROVE  IInv'
<1> DEFINE th == [thread[t] EXCEPT !.pc = "insert", !.image = i, !.previous = deploy.image]
<1>1. thread[t] \in ThreadRecord /\ deploy.image \in Image
  BY DEF IInv, TypeOK
<1>2. /\ th \in ThreadRecord
      /\ th.pc = "insert" /\ th.image = i /\ th.previous = deploy.image
  BY Zenon, <1>1 DEF ThreadRecord
<1>3. thread' = [thread EXCEPT ![t] = th]
  BY DEF ReadStatus
<1> HIDE DEF th
<1>4. ThreadOK(th, row', deployed')
  BY <1>1, <1>2 DEF ThreadOK
<1>5. Progress
  BY DEF ReadStatus, Progress
<1>6. ThreadInv' /\ thread' \in [Thread -> ThreadRecord]
  BY Zenon, <1>2, <1>3, <1>4, <1>5, ThreadInvStep DEF IInv
<1> QED BY <1>6 DEF ReadStatus, IInv, TypeOK, RowsInv, AnnotationInv, DeploymentRecorded, SucceededDeployed

\* CreateRelease: the record is inserted as "accepted", or the request gives up.
LEMMA CreateReleaseStep ==
    ASSUME IInv, NEW t \in Thread, CreateRelease(t)
    PROVE  IInv'
<1>1. PICK w \in Write :
        /\ WriteCost(w)
        /\ IF w = "ok"
           THEN \E r \in Release :
                /\ NextId(r)
                /\ row' = [row EXCEPT ![r] = [status |-> "accepted", image |-> thread[t].image,
                                              previous |-> thread[t].previous]]
                /\ thread' = [thread EXCEPT ![t] = [Idle EXCEPT !.pc = "apply", !.id = r]]
           ELSE UNCHANGED row /\ Leave(t)
  BY Zenon DEF CreateRelease
<1>2. used' \in [faults: 0..MaxFaults, db: 0..MaxDBFaults, crashes: 0..MaxCrashes]
  BY Zenon, <1>1, Costs DEF IInv
<1>u. UNCHANGED <<age, updateMu, deploy, pod, deployed>>
  BY Zenon DEF CreateRelease
<1>3. CASE w = "ok"
  <2>1. PICK r \in Release :
          /\ NextId(r)
          /\ row' = [row EXCEPT ![r] = [status |-> "accepted", image |-> thread[t].image,
                                        previous |-> thread[t].previous]]
          /\ thread' = [thread EXCEPT ![t] = [Idle EXCEPT !.pc = "apply", !.id = r]]
    BY Zenon, <1>1, <1>3
  <2>2. thread[t] \in ThreadRecord /\ thread[t].image \in Image /\ thread[t].previous \in Image
    BY Zenon DEF CreateRelease, At, IInv, TypeOK, ThreadInv, ThreadOK
  <2>3. /\ row' \in [Release -> RowRecord]
        /\ row'[r].status = "accepted" /\ row'[r].image \in Image /\ row'[r].previous \in Image
        /\ \A x \in Release : x # r => row'[x] = row[x]
    BY <2>1, <2>2 DEF IInv, TypeOK, RowRecord, Status, Incomplete
  <2>4. row[r].status = "absent"
    BY <2>1 DEF NextId
  <2>5. Progress
    BY <2>3, <2>4, <1>u DEF Progress
  <2> DEFINE th == [Idle EXCEPT !.pc = "apply", !.id = r]
  <2>6. th \in ThreadRecord /\ th.pc = "apply" /\ th.id = r
    BY Zenon, <2>2, MovedApply
  <2>7. thread' = [thread EXCEPT ![t] = th]
    BY <2>1
  <2> HIDE DEF th
  <2>8. ThreadOK(th, row', deployed')
    BY <2>3, <2>6 DEF ThreadOK
  <2>9. ThreadInv' /\ thread' \in [Thread -> ThreadRecord]
    BY Zenon, <2>5, <2>6, <2>7, <2>8, ThreadInvStep DEF IInv
  <2>10. RowsInv' /\ SucceededDeployed' /\ AnnotationInv'
    BY <2>3, <1>u DEF IInv, RowsInv, SucceededDeployed, AnnotationInv
  <2>11. DeploymentRecorded'
    <3>1. deploy.release # 0 => deploy.release \in Release /\ deploy.release # r
      BY <2>4 DEF IInv, TypeOK, DeploymentRecorded, AnnotationInv
    <3> QED BY <3>1, <2>3, <1>u DEF IInv, DeploymentRecorded
  <2>12. TypeOK'
    BY Zenon, <1>2, <1>u, <2>3, <2>9 DEF IInv, TypeOK
  <2> QED BY <2>9, <2>10, <2>11, <2>12 DEF IInv
<1>4. CASE w # "ok"
  <2>1. row' = row /\ thread' = [thread EXCEPT ![t] = Idle]
    BY <1>1, <1>4 DEF Leave
  <2>2. Progress
    BY Zenon, <2>1, <1>u DEF Progress
  <2>3. ThreadInv' /\ thread' \in [Thread -> ThreadRecord]
    BY Zenon, <2>1, <2>2, IdleOK, ThreadInvStep DEF IInv
  <2> QED BY Zenon, <1>2, <1>u, <2>1, <2>3 DEF IInv, TypeOK, RowsInv, AnnotationInv, DeploymentRecorded, SucceededDeployed
<1> QED BY <1>3, <1>4

\* What SaveStatus of a status past "accepted" leaves to be shown for the rest.
LEMMA SavedRest ==
    ASSUME IInv, NEW r \in Release, NEW s \in Status \ {"absent", "accepted"}, NEW w,
           row[r].status # "absent", SaveStatus(r, s, w), s = "succeeded" => r \in deployed,
           UNCHANGED <<deploy, deployed>>
    PROVE  /\ row' \in [Release -> RowRecord] /\ Progress
           /\ RowsInv' /\ AnnotationInv' /\ DeploymentRecorded' /\ SucceededDeployed'
<1>1. /\ row' \in [Release -> RowRecord] /\ Progress /\ RowsInv'
      /\ \A x \in Release : x # r => row'[x] = row[x]
      /\ \A x \in Release : row'[x].image = row[x].image
      /\ row'[r].status \in {s, row[r].status}
  BY StatusProgress DEF IInv
<1>2. AnnotationInv' /\ SucceededDeployed'
  BY <1>1 DEF IInv, AnnotationInv, SucceededDeployed
<1>3. deploy.release # 0 => deploy.release \in Release
  BY DEF IInv, TypeOK, AnnotationInv
<1>4. DeploymentRecorded'
  BY Zenon, <1>1, <1>3 DEF IInv, DeploymentRecorded
<1> QED BY <1>1, <1>2, <1>4

\* Lock: Apply leaves a record that is past "applying" alone, or saves "applying".
LEMMA LockStep ==
    ASSUME IInv, NEW t \in Thread, Lock(t)
    PROVE  IInv'
<1> DEFINE r == thread[t].id
<1>u. UNCHANGED <<age, deploy, pod, deployed>>
  BY Zenon DEF Lock
<1>0. thread[t] \in ThreadRecord /\ r \in Release /\ row[r].status # "absent"
  BY Zenon DEF Lock, At, IInv, TypeOK, ThreadInv, ThreadOK
<1>1. CASE row[r].status \notin {"accepted", "applying"}
  <2>1. thread' = [thread EXCEPT ![t] = Idle] /\ UNCHANGED <<row, updateMu, used>>
    BY Zenon, <1>1 DEF Lock, Leave
  <2>2. Progress
    BY Zenon, <2>1, <1>u DEF Progress
  <2>3. ThreadInv' /\ thread' \in [Thread -> ThreadRecord]
    BY Zenon, <2>1, <2>2, IdleOK, ThreadInvStep DEF IInv
  <2> QED BY Zenon, <1>u, <2>1, <2>3 DEF IInv, TypeOK, RowsInv, AnnotationInv, DeploymentRecorded, SucceededDeployed
<1>2. CASE row[r].status \in {"accepted", "applying"}
  <2>1. PICK w \in Write :
          /\ WriteCost(w)
          /\ SaveStatus(r, "applying", w)
          /\ IF w = "ok" THEN Goto(t, "update") /\ updateMu' = t ELSE Leave(t) /\ UNCHANGED updateMu
    BY Zenon, <1>2 DEF Lock
  <2>2. used' \in [faults: 0..MaxFaults, db: 0..MaxDBFaults, crashes: 0..MaxCrashes]
    BY <2>1, Costs DEF IInv
  <2>3. "applying" \in Status \ {"absent", "accepted"} /\ "applying" \in Status
    BY DEF Status, Incomplete
  <2>4. /\ row' \in [Release -> RowRecord] /\ Progress
        /\ RowsInv' /\ AnnotationInv' /\ DeploymentRecorded' /\ SucceededDeployed'
    BY Zenon, <1>0, <1>u, <2>1, <2>3, SavedRest
  <2>5. updateMu' \in Thread \union {None}
    BY <2>1 DEF IInv, TypeOK
  <2>6. ThreadInv' /\ thread' \in [Thread -> ThreadRecord]
    <3>1. CASE w = "ok"
      <4> DEFINE th == [thread[t] EXCEPT !.pc = "update"]
      <4>1. thread' = [thread EXCEPT ![t] = th]
        BY <2>1, <3>1 DEF Goto
      <4>2. th \in ThreadRecord /\ th.pc = "update" /\ th.id = r
        BY Zenon, <1>0, MovedPc
      <4>3. row'[r].status = "applying"
        BY <1>0, <2>1, <2>3, <3>1, StatusSaved DEF SaveStatus, IInv
      <4> HIDE DEF th
      <4>4. ThreadOK(th, row', deployed')
        BY <1>0, <4>2, <4>3 DEF ThreadOK
      <4> QED BY Zenon, <2>4, <4>1, <4>2, <4>4, ThreadInvStep DEF IInv
    <3>2. CASE w # "ok"
      <4>1. thread' = [thread EXCEPT ![t] = Idle]
        BY <2>1, <3>2 DEF Leave
      <4> QED BY Zenon, <2>4, <4>1, IdleOK, ThreadInvStep DEF IInv
    <3> QED BY <3>1, <3>2
  <2>7. TypeOK'
    BY <1>u, <2>2, <2>4, <2>5, <2>6 DEF IInv, TypeOK
  <2> QED BY <2>4, <2>6, <2>7 DEF IInv
<1> QED BY <1>1, <1>2

\* UpdateDeployment: the Deployment is set to a record that is past "accepted".
LEMMA UpdateDeploymentStep ==
    ASSUME IInv, NEW t \in Thread, UpdateDeployment(t)
    PROVE  IInv'
<1> DEFINE r == thread[t].id
<1>u. UNCHANGED <<row, age, updateMu, pod>>
  BY DEF UpdateDeployment
<1>0. /\ thread[t] \in ThreadRecord /\ r \in Release
      /\ row[r].status # "absent" /\ row[r].status # "accepted"
  BY DEF UpdateDeployment, At, IInv, TypeOK, ThreadInv, ThreadOK
<1>1. PICK c \in Call :
        /\ CallCost(c)
        /\ IF c = "refused"
           THEN UNCHANGED <<deploy, deployed>>
           ELSE /\ deploy' = [image |-> row[r].image, release |-> r]
                /\ deployed' = deployed \union {r}
        /\ thread' = [thread EXCEPT ![t] = [@ EXCEPT !.pc = "applied",
                                                     !.status = IF c = "ok" THEN "waiting_ready" ELSE "failed"]]
  BY Zenon DEF UpdateDeployment
<1>2. used' \in [faults: 0..MaxFaults, db: 0..MaxDBFaults, crashes: 0..MaxCrashes]
  BY <1>1, Costs DEF IInv
<1>3. deployed \subseteq deployed' /\ deployed' \subseteq Release
  BY <1>0, <1>1 DEF IInv, TypeOK
<1>4. Progress
  BY Zenon, <1>3, <1>u DEF Progress
<1>5. PICK s \in {"waiting_ready", "failed"} : s = IF c = "ok" THEN "waiting_ready" ELSE "failed"
  OBVIOUS
<1>6. ThreadInv' /\ thread' \in [Thread -> ThreadRecord]
  <2> DEFINE th == [thread[t] EXCEPT !.pc = "applied", !.status = s]
  <2>1. thread' = [thread EXCEPT ![t] = th]
    BY <1>1, <1>5
  <2>2. s \in Status
    BY DEF Status, Incomplete, Complete
  <2>3. th \in ThreadRecord /\ th.pc = "applied" /\ th.id = r /\ th.status = s
    BY Zenon, <1>0, <2>2, MovedStatus
  <2> HIDE DEF th
  <2>4. ThreadOK(th, row', deployed')
    BY Zenon, <1>0, <1>u, <2>3 DEF ThreadOK
  <2> QED BY Zenon, <1>4, <2>1, <2>3, <2>4, ThreadInvStep DEF IInv
<1>7. RowsInv' /\ SucceededDeployed'
  BY <1>u, <1>3 DEF IInv, RowsInv, SucceededDeployed
<1>8. deploy' \in [image: Image, release: 0..MaxId] /\ AnnotationInv' /\ DeploymentRecorded'
  <2>1. CASE c = "refused"
    BY <1>1, <1>u, <2>1 DEF IInv, TypeOK, AnnotationInv, DeploymentRecorded
  <2>2. CASE c # "refused"
    <3>1. row[r].image \in Image /\ r \in 0..MaxId /\ row[r].status \in Status
      BY <1>0, ConstantsAssumption DEF IInv, RowsInv, TypeOK, Release, RowRecord
    <3>2. deploy' = [image |-> row[r].image, release |-> r] /\ deployed' = deployed \union {r}
      BY <1>1, <2>2
    <3>3. deploy' \in [image: Image, release: 0..MaxId] /\ deploy'.release = r /\ deploy'.image = row[r].image
      BY Zenon, <3>1, <3>2
    <3> QED BY Zenon, <1>0, <1>u, <3>1, <3>2, <3>3 DEF AnnotationInv, DeploymentRecorded
  <2> QED BY <2>1, <2>2
<1>9. TypeOK'
  BY Zenon, <1>u, <1>2, <1>3, <1>6, <1>8 DEF IInv, TypeOK
<1> QED BY <1>6, <1>7, <1>8, <1>9 DEF IInv

\* A thread that saves the status it carries, and leaves.
LEMMA SaveAndLeave ==
    ASSUME IInv, NEW t \in Thread, thread[t].pc \in {"applied", "save"},
           \E w \in Write : WriteCost(w) /\ SaveStatus(thread[t].id, thread[t].status, w),
           Leave(t), updateMu' \in {updateMu, None}, UNCHANGED <<age, deploy, pod, deployed>>
    PROVE  IInv'
<1> DEFINE r == thread[t].id
           s == thread[t].status
<1>0. /\ thread[t] \in ThreadRecord /\ r \in Release /\ row[r].status # "absent"
      /\ s \in {"waiting_ready", "failed", "succeeded"}
      /\ s = "succeeded" => r \in deployed
  BY Zenon DEF IInv, TypeOK, ThreadInv, ThreadOK, Complete
<1>1. PICK w \in Write : WriteCost(w) /\ SaveStatus(r, s, w)
  BY Zenon
<1>2. used' \in [faults: 0..MaxFaults, db: 0..MaxDBFaults, crashes: 0..MaxCrashes]
  BY Zenon, <1>1, Costs DEF IInv
<1>3. s \in Status \ {"absent", "accepted"}
  BY Zenon, <1>0 DEF Status, Incomplete, Complete
<1>4. /\ row' \in [Release -> RowRecord] /\ Progress
      /\ RowsInv' /\ AnnotationInv' /\ DeploymentRecorded' /\ SucceededDeployed'
  BY Zenon, <1>0, <1>1, <1>3, SavedRest
<1>5. thread' = [thread EXCEPT ![t] = Idle]
  BY Zenon DEF Leave
<1>6. ThreadInv' /\ thread' \in [Thread -> ThreadRecord]
  BY Zenon, <1>4, <1>5, IdleOK, ThreadInvStep DEF IInv
<1>7. TypeOK'
  BY Zenon, <1>2, <1>4, <1>6 DEF IInv, TypeOK
<1> QED BY Zenon, <1>4, <1>6, <1>7 DEF IInv

\* A thread that only moves: the records and the Deployment stay as they are.
LEMMA MoveOnly ==
    ASSUME IInv, NEW t \in Thread, NEW th \in ThreadRecord, thread' = [thread EXCEPT ![t] = th],
           ThreadOK(th, row, deployed), UNCHANGED <<row, age, updateMu, deploy, pod, deployed>>,
           used' \in [faults: 0..MaxFaults, db: 0..MaxDBFaults, crashes: 0..MaxCrashes]
    PROVE  IInv'
<1>1. Progress
  BY Zenon DEF Progress
<1>2. ThreadOK(th, row', deployed')
  BY <1>1, ThreadKeeps
<1>3. ThreadInv' /\ thread' \in [Thread -> ThreadRecord]
  BY Zenon, <1>1, <1>2, ThreadInvStep DEF IInv
<1> QED BY Zenon, <1>3 DEF IInv, TypeOK, RowsInv, AnnotationInv, DeploymentRecorded, SucceededDeployed

\* ReadLatest: ReconcileLatest picks an incomplete record.
LEMMA ReadLatestStep ==
    ASSUME IInv, NEW t \in Thread, ReadLatest(t)
    PROVE  IInv'
<1>1. PICK r \in Release :
        /\ LatestIncomplete(r)
        /\ thread' = [thread EXCEPT ![t] = [@ EXCEPT !.pc = "decide", !.id = r, !.status = row[r].status]]
  BY Zenon DEF ReadLatest
<1>2. row[r].status \in Status /\ row[r].status # "absent" /\ thread[t] \in ThreadRecord
  BY <1>1 DEF LatestIncomplete, Incomplete, Status, IInv, TypeOK
<1> DEFINE th == [thread[t] EXCEPT !.pc = "decide", !.id = r, !.status = row[r].status]
<1>3. th \in ThreadRecord /\ th.pc = "decide" /\ th.id = r
  <2>1. r \in 0..MaxId
    BY ConstantsAssumption DEF Release
  <2> QED BY Zenon, <1>2, <2>1 DEF ThreadRecord
<1>4. thread' = [thread EXCEPT ![t] = th]
  BY <1>1
<1> HIDE DEF th
<1>5. ThreadOK(th, row, deployed)
  BY <1>2, <1>3 DEF ThreadOK
<1>6. used' \in [faults: 0..MaxFaults, db: 0..MaxDBFaults, crashes: 0..MaxCrashes]
  BY DEF ReadLatest, IInv, TypeOK
<1> QED BY Zenon, <1>3, <1>4, <1>5, <1>6, MoveOnly DEF ReadLatest

\* Decide: "succeeded" is chosen only for the release the Deployment is annotated with.
LEMMA DecideStep ==
    ASSUME IInv, NEW t \in Thread, Decide(t)
    PROVE  IInv'
<1> DEFINE r == thread[t].id
<1>0. thread[t] \in ThreadRecord /\ r \in Release /\ row[r].status # "absent"
  BY DEF Decide, At, IInv, TypeOK, ThreadInv, ThreadOK
<1>u. /\ UNCHANGED <<row, age, updateMu, deploy, pod, deployed>>
      /\ used' \in [faults: 0..MaxFaults, db: 0..MaxDBFaults, crashes: 0..MaxCrashes]
  BY DEF Decide, IInv, TypeOK
<1>1. \/ Goto(t, "apply")
      \/ Matches(r) /\ thread' = [thread EXCEPT ![t] = [@ EXCEPT !.pc = "save", !.status = "succeeded"]]
      \/ thread' = [thread EXCEPT ![t] = [@ EXCEPT !.pc = "save", !.status = "failed"]]
      \/ Leave(t)
  BY DEF Decide
<1>2. ASSUME Goto(t, "apply") PROVE IInv'
  <2> DEFINE th == [thread[t] EXCEPT !.pc = "apply"]
  <2>1. th \in ThreadRecord /\ th.pc = "apply" /\ th.id = r
    BY Zenon, <1>0, MovedPc
  <2>2. thread' = [thread EXCEPT ![t] = th]
    BY <1>2 DEF Goto
  <2> HIDE DEF th
  <2>3. ThreadOK(th, row, deployed)
    BY Zenon, <1>0, <2>1 DEF ThreadOK
  <2> QED BY Zenon, <1>u, <2>1, <2>2, <2>3, MoveOnly
<1>3. ASSUME NEW s \in Complete, s = "succeeded" => Matches(r),
             thread' = [thread EXCEPT ![t] = [@ EXCEPT !.pc = "save", !.status = s]]
      PROVE  IInv'
  <2> DEFINE th == [thread[t] EXCEPT !.pc = "save", !.status = s]
  <2>1. s \in Status
    BY DEF Status
  <2>2. th \in ThreadRecord /\ th.pc = "save" /\ th.id = r /\ th.status = s
    BY Zenon, <1>0, <2>1, MovedStatus
  <2>3. thread' = [thread EXCEPT ![t] = th]
    BY <1>3
  <2>4. r # 0
    BY <1>0, ConstantsAssumption DEF Release
  <2>5. s = "succeeded" => r \in deployed
    BY <1>3, <2>4 DEF Matches, IInv, AnnotationInv
  <2> HIDE DEF th
  <2>6. ThreadOK(th, row, deployed)
    BY Zenon, <1>0, <2>2, <2>5 DEF ThreadOK
  <2> QED BY Zenon, <1>u, <2>2, <2>3, <2>6, MoveOnly
<1>4. ASSUME Leave(t) PROVE IInv'
  <2>1. thread' = [thread EXCEPT ![t] = Idle] /\ Idle \in ThreadRecord
    BY <1>4, IdleOK DEF Leave
  <2>2. ThreadOK(Idle, row, deployed)
    BY Zenon DEF Idle, ThreadOK
  <2> QED BY Zenon, <1>u, <2>1, <2>2, MoveOnly
<1>5. "succeeded" \in Complete /\ "failed" \in Complete
  BY DEF Complete
<1> QED BY Zenon, <1>1, <1>2, <1>3, <1>4, <1>5

\* StatusUnavailable: ReconcileLatest gives up until the next period.
LEMMA StatusUnavailableStep ==
    ASSUME IInv, NEW t \in Thread, StatusUnavailable(t)
    PROVE  IInv'
<1>1. thread' = [thread EXCEPT ![t] = Idle] /\ Idle \in ThreadRecord
  BY IdleOK DEF StatusUnavailable, Leave
<1>2. ThreadOK(Idle, row, deployed)
  BY Zenon DEF Idle, ThreadOK
<1>3. used' \in [faults: 0..MaxFaults, db: 0..MaxDBFaults, crashes: 0..MaxCrashes]
  BY Costs DEF StatusUnavailable, IInv
<1> QED BY Zenon, <1>1, <1>2, <1>3, MoveOnly DEF StatusUnavailable

\* The process stops (StopOldPod, Crash): the threads are gone, the records stay.
LEMMA StoppedStep ==
    ASSUME IInv, Stopped, UNCHANGED <<row, age, deploy, deployed>>,
           pod' \in [release: 0..MaxId, state: {"down", "starting", "available"}],
           used' \in [faults: 0..MaxFaults, db: 0..MaxDBFaults, crashes: 0..MaxCrashes]
    PROVE  IInv'
<1>1. thread' = [t \in Thread |-> Idle] /\ updateMu' = None
  BY DEF Stopped
<1>2. thread' \in [Thread -> ThreadRecord] /\ \A t \in Thread : thread'[t] = Idle
  BY <1>1, IdleOK
<1>3. ThreadInv'
  BY Zenon, <1>2, IdleOK DEF ThreadInv
<1> QED BY Zenon, <1>1, <1>2, <1>3 DEF IInv, TypeOK, RowsInv, AnnotationInv, DeploymentRecorded, SucceededDeployed

\* The cluster's steps and time change neither threads, records nor Deployment.
LEMMA ClusterStep ==
    ASSUME IInv, UNCHANGED <<row, thread, updateMu, deploy, deployed, used>>,
           age' \in [Release -> {"young", "old"}],
           pod' \in [release: 0..MaxId, state: {"down", "starting", "available"}]
    PROVE  IInv'
BY Zenon DEF IInv, TypeOK, ThreadInv, RowsInv, AnnotationInv, DeploymentRecorded, SucceededDeployed

-----------------------------------------------------------------------------
\* The strengthened invariant holds initially.
LEMMA IInvInit == Init => IInv
<1> SUFFICES ASSUME Init PROVE IInv
  OBVIOUS
<1>1. Idle \in ThreadRecord /\ \A rows, dep : ThreadOK(Idle, rows, dep)
  BY Zenon, IdleOK DEF Idle, ThreadOK
<1>2. PICK i \in Image \ BadImage : deploy = [image |-> i, release |-> 0]
  BY Zenon DEF Init
<1>3. [status |-> "absent", image |-> None, previous |-> None] \in RowRecord
  BY Zenon DEF RowRecord, Status
<1>4. TypeOK
  <2>1. row \in [Release -> RowRecord]
    BY Zenon, <1>3 DEF Init
  <2>2. thread \in [Thread -> ThreadRecord]
    BY Zenon, <1>1 DEF Init
  <2> QED BY <1>2, <2>1, <2>2, ConstantsAssumption DEF Init, TypeOK
<1>5. ThreadInv
  BY Zenon, <1>1 DEF Init, ThreadInv
<1> QED BY Zenon, <1>2, <1>4, <1>5 DEF Init, IInv, RowsInv, AnnotationInv, DeploymentRecorded, SucceededDeployed

\* Every step of the self-update keeps the strengthened invariant.
LEMMA IInvStep == IInv /\ [Next]_vars => IInv'
<1> SUFFICES ASSUME IInv, [Next]_vars PROVE IInv'
  OBVIOUS
<1>1. ASSUME NEW t \in Request, Submit(t) PROVE IInv'
  BY <1>1, ReadStatusStep DEF Submit, Thread
<1>2. ASSUME NEW t \in Request, Rollback(t) PROVE IInv'
  <2>1. PICK r \in Existing : ReadStatus(t, row[r].previous)
    BY <1>2 DEF Rollback
  <2>2. row[r].previous \in Image
    BY DEF Existing, IInv, RowsInv
  <2> QED BY <2>1, <2>2, ReadStatusStep DEF Thread
<1>3. ASSUME NEW t \in Thread, ReadLatest(t) PROVE IInv'
  BY <1>3, ReadLatestStep
<1>4. ASSUME NEW t \in Thread, Running(t) PROVE IInv'
  <2>1. CASE CreateRelease(t)
    BY <2>1, CreateReleaseStep
  <2>2. CASE Lock(t)
    BY <2>2, LockStep
  <2>3. CASE UpdateDeployment(t)
    BY Zenon, <2>3, UpdateDeploymentStep
  <2>4. CASE Applied(t)
    BY Zenon, <2>4, SaveAndLeave DEF Applied, At
  <2>5. CASE Decide(t)
    BY <2>5, DecideStep
  <2>6. CASE StatusUnavailable(t)
    BY Zenon, <2>6, StatusUnavailableStep
  <2>7. CASE SaveReconciled(t)
    BY Zenon, <2>7, SaveAndLeave DEF SaveReconciled, At
  <2> QED BY <1>4, <2>1, <2>2, <2>3, <2>4, <2>5, <2>6, <2>7 DEF Running
<1>5. CASE StopOldPod
  BY Zenon, <1>5, StoppedStep DEF StopOldPod, IInv, TypeOK
<1>6. CASE StartPod
  BY Zenon, <1>6, ClusterStep DEF StartPod, IInv, TypeOK
<1>7. CASE PodAvailable
  BY <1>7, ClusterStep DEF PodAvailable, IInv, TypeOK
<1>8. CASE Crash
  <2>1. used' \in [faults: 0..MaxFaults, db: 0..MaxDBFaults, crashes: 0..MaxCrashes]
    BY <1>8, ConstantsAssumption DEF Crash, IInv, TypeOK
  <2> QED BY <1>8, <2>1, StoppedStep DEF Crash, IInv, TypeOK
<1>9. ASSUME NEW r \in Release, Age(r) PROVE IInv'
  BY Zenon, <1>9, ClusterStep DEF Age, IInv, TypeOK
<1>10. CASE UNCHANGED vars
  BY Zenon, <1>10 DEF vars, IInv, TypeOK, ThreadInv, RowsInv, AnnotationInv, DeploymentRecorded, SucceededDeployed
<1> QED BY <1>1, <1>2, <1>3, <1>4, <1>5, <1>6, <1>7, <1>8, <1>9, <1>10 DEF Next

\* The strengthened invariant holds in every reachable state.
LEMMA IInvAlways == Spec => []IInv
BY IInvInit, IInvStep, PTL DEF Spec

\* Records, threads, mutex and Deployment are well formed in every state of the
\* self-update, for any number of releases, requests, faults and restarts.
THEOREM TypeCorrect == Spec => []TypeOK
<1>1. IInv => TypeOK
  BY DEF IInv
<1> QED BY <1>1, IInvAlways, PTL

\* Apply saves "applying" before it updates the Deployment, so the release the
\* Deployment is annotated with always has a record past "accepted", whose image
\* it runs, whatever calls fail and whenever the process is replaced.
THEOREM AnnotationRecorded == Spec => []DeploymentRecorded
<1>1. IInv => DeploymentRecorded
  BY DEF IInv
<1> QED BY <1>1, IInvAlways, PTL

\* ReconcileLatest reports "succeeded" only for a release that was really put in
\* the Deployment, although it decides on a record it read some steps before.
THEOREM SuccessImpliesDeployed == Spec => []SucceededDeployed
<1>1. IInv => SucceededDeployed
  BY DEF IInv
<1> QED BY <1>1, IInvAlways, PTL

-----------------------------------------------------------------------------
(* Dashboard and terminals.                                                *)

\* What keeps one refresh apart from the next: a request that waits has a channel.
DInv ==
    /\ Dashboards!TypeOK /\ Dashboards!OneRefresh /\ Dashboards!FailsAlone
    /\ DOMAIN results = Gets /\ results = [g \in Gets |-> results[g]]
    /\ \A g \in Gets : pc[g] = "wait" => channel[g] # None

\* A service that has not been asked yet satisfies the invariant.
LEMMA DashboardInit == Dashboards!Init => DInv
<1> SUFFICES ASSUME Dashboards!Init PROVE DInv
  OBVIOUS
<1> USE DEF Dashboards!Init
<1>1. Dashboards!TypeOK
  BY Zenon DEF Dashboards!TypeOK, Dashboards!Pcs
<1>2. Dashboards!OneRefresh /\ Dashboards!FailsAlone
  BY PartsAssumption DEF Dashboards!OneRefresh, Dashboards!FailsAlone
<1> QED
  BY <1>1, <1>2 DEF DInv

\* Requests that lead, follow, collect lists, are cancelled and are woken keep the invariant:
\* whoever waits, waits for the channel of a refresh that was under way when it came.
LEMMA DashboardStep == DInv /\ Dashboards!Next => DInv'
<1> SUFFICES ASSUME DInv, Dashboards!Next PROVE DInv'
  OBVIOUS
<1> USE DEF DInv
<1>1. CASE Dashboards!Expire
  BY Zenon, <1>1 DEF Dashboards!Expire, Dashboards!TypeOK, Dashboards!OneRefresh, Dashboards!FailsAlone
<1>2. ASSUME NEW g \in Gets, Dashboards!Get(g) \/ Dashboards!cloneSummary(g) PROVE DInv'
  BY <1>2 DEF Dashboards!Get, Dashboards!cloneSummary, Dashboards!TypeOK, Dashboards!OneRefresh, Dashboards!FailsAlone, Dashboards!Pcs
<1>3. ASSUME NEW g \in Gets, Dashboards!Follow(g) PROVE DInv'
  BY Zenon, <1>3 DEF Dashboards!Follow, Dashboards!TypeOK, Dashboards!OneRefresh, Dashboards!FailsAlone, Dashboards!Pcs
<1>4. ASSUME NEW g \in Gets, Dashboards!Lead(g) PROVE DInv'
  BY <1>4, PartsAssumption DEF Dashboards!Lead, Dashboards!TypeOK, Dashboards!OneRefresh, Dashboards!FailsAlone, Dashboards!Pcs
<1>5. ASSUME NEW g \in Gets, Dashboards!Woken(g) PROVE DInv'
  BY <1>5 DEF Dashboards!Woken, Dashboards!TypeOK, Dashboards!OneRefresh, Dashboards!FailsAlone, Dashboards!Pcs
<1>6. ASSUME NEW g \in Gets, NEW l \in Lists, Dashboards!Collect(g, l) PROVE DInv'
  <2> USE <1>6 DEF Dashboards!Collect
  <2>1. PICK ok \in {TRUE, FALSE} :
          results' = [results EXCEPT ![g] = [k \in DOMAIN @ \cup {l} |-> IF k = l THEN ok ELSE @[k]]]
    BY Zenon
  <2> DEFINE answers == [k \in DOMAIN results[g] \cup {l} |-> IF k = l THEN ok ELSE results[g][k]]
  <2>a. results' = [results EXCEPT ![g] = answers]
    BY Zenon, <2>1
  <2> HIDE DEF answers
  <2>2. results'[g] = answers
    BY <2>a
  <2>3. \A h \in Gets \ {g} : results'[h] = results[h]
    BY <2>a
  <2>4. \A h \in Gets : \A k \in DOMAIN results'[h] : k \in Lists /\ results'[h][k] \in BOOLEAN
    <3>1. \A k \in DOMAIN results[g] : k \in Lists /\ results[g][k] \in BOOLEAN
      BY Zenon DEF Dashboards!TypeOK
    <3>2. DOMAIN answers = DOMAIN results[g] \cup {l}
      BY Zenon DEF answers
    <3>3. answers[l] = ok /\ \A k \in DOMAIN results[g] : k # l => answers[k] = results[g][k]
      BY Zenon DEF answers
    <3>4. \A k \in DOMAIN answers : k \in Lists /\ answers[k] \in BOOLEAN
      BY Zenon, <3>1, <3>2, <3>3
    <3> QED
      BY Zenon, <2>2, <2>3, <3>4 DEF Dashboards!TypeOK
  <2>5. pc' \in [Gets -> Dashboards!Pcs]
    BY Zenon DEF Dashboards!TypeOK, Dashboards!Pcs
  <2>6. \A h \in Gets : pc'[h] = pc[h] \/ (pc[h] = "collect" /\ pc'[h] = "finish")
    BY Zenon DEF Dashboards!TypeOK
  <2>7. Dashboards!TypeOK'
    BY Zenon, <2>4, <2>5 DEF Dashboards!TypeOK
  <2>8. Dashboards!OneRefresh' /\ Dashboards!FailsAlone'
    BY <2>6 DEF Dashboards!OneRefresh, Dashboards!FailsAlone
  <2>9. DOMAIN results' = Gets /\ results' = [h \in Gets |-> results'[h]]
    BY Zenon, <2>a
  <2> QED
    BY Zenon, <2>6, <2>7, <2>8, <2>9
<1>7. ASSUME NEW g \in Gets, Dashboards!Finish(g) PROVE DInv'
  <2> USE <1>7 DEF Dashboards!Finish
  <2>1. refresh = g /\ refresh' = None /\ closed' = closed \cup {g}
    BY DEF Dashboards!Release, Dashboards!OneRefresh
  <2>2. Dashboards!refreshValue(g) = None => g \in cancelled
    <3>1. {l \in Lists : results[g][l]} \in SUBSET Lists
      OBVIOUS
    <3> QED
      BY Zenon, <3>1, PartsAssumption DEF Dashboards!refreshValue, Dashboards!ContextEnded
  <2>3. Dashboards!refreshValue(g) \in (SUBSET Lists) \cup {None}
    BY Zenon DEF Dashboards!refreshValue
  <2>4. value' \in (SUBSET Lists) \cup {None} /\ fresh' \in BOOLEAN
    BY Zenon, <2>3 DEF Dashboards!TypeOK
  <2>5. /\ pc' \in [Gets -> Dashboards!Pcs]
        /\ \A h \in Gets \ {g} : pc'[h] = pc[h]
        /\ pc'[g] \in {"answered", "failed"} /\ (pc'[g] = "failed" => g \in cancelled)
    BY Zenon, <2>2 DEF Dashboards!TypeOK, Dashboards!Pcs
  <2>6. Dashboards!TypeOK'
    BY <2>1, <2>4, <2>5 DEF Dashboards!TypeOK
  <2>7. Dashboards!OneRefresh' /\ Dashboards!FailsAlone'
    BY Zenon, <2>1, <2>5, PartsAssumption DEF Dashboards!OneRefresh, Dashboards!FailsAlone
  <2> QED
    BY Zenon, <2>5, <2>6, <2>7
<1>8. ASSUME NEW g \in Gets, Dashboards!Leave(g) PROVE DInv'
  BY Zenon, <1>8 DEF Dashboards!Leave, Dashboards!TypeOK, Dashboards!OneRefresh, Dashboards!FailsAlone
<1> QED
  BY Zenon, <1>1, <1>2, <1>3, <1>4, <1>5, <1>6, <1>7, <1>8 DEF Dashboards!Next, Dashboards!Step

\* What the relay of a terminal may rely on: a size that is being pushed is the last one,
\* and the terminal of a server has no queue.
TInv ==
    /\ Terminals!TypeOK /\ Terminals!LatestSize
    /\ last # None
    /\ reader = "push" => pushing = last /\ queue = None
    /\ kind = "server" => queue = None /\ applied = last /\ reader # "push"
    /\ relay = "setup" => reader = "none" /\ last = Default

\* A terminal that has just been opened satisfies the invariant.
LEMMA TerminalInit == Terminals!Init => TInv
BY PartsAssumption DEF Terminals!Init, TInv, Terminals!TypeOK, Terminals!LatestSize

\* Frames of the browser, output of the shell, the relay and the reader keep the invariant.
LEMMA TerminalStep == TInv /\ Terminals!Next => TInv'
<1> SUFFICES ASSUME TInv, Terminals!Next PROVE TInv'
  OBVIOUS
<1> USE DEF TInv, Terminals!LatestSize, Terminals!TypeOK
<1>1. CASE Terminals!SetupFails \/ Terminals!BrowserLeaves \/ Terminals!ShellExits
  BY Zenon, <1>1 DEF Terminals!SetupFails, Terminals!BrowserLeaves, Terminals!ShellExits
<1>2. CASE Terminals!ReadFails \/ Terminals!InputTaken \/ Terminals!readPodTerminalInput
  BY Zenon, <1>2 DEF Terminals!ReadFails, Terminals!InputTaken, Terminals!readPodTerminalInput, Terminals!EndSession
<1>3. ASSUME NEW size \in Sizes, Terminals!Resize(size) PROVE TInv'
  BY <1>3, PartsAssumption DEF Terminals!Resize, Terminals!Drained
<1>4. CASE Terminals!Push
  BY Zenon, <1>4 DEF Terminals!Push, Terminals!PushSize
<1>5. CASE Terminals!Input
  BY <1>5, PartsAssumption DEF Terminals!Input
<1>6. CASE Terminals!PodTerminal \/ Terminals!ServerTerminal
  BY Zenon, <1>6, PartsAssumption DEF Terminals!PodTerminal, Terminals!ServerTerminal, Terminals!newPodTerminalSizeQueue
<1>7. CASE Terminals!NextSize
  BY Zenon, <1>7 DEF Terminals!NextSize
<1>8. CASE Terminals!WriteFrame \/ Terminals!RelayEnds
  BY Zenon, <1>8 DEF Terminals!WriteFrame, Terminals!RelayEnds
<1>9. CASE Terminals!Output
  BY <1>9, PartsAssumption DEF Terminals!Output
<1> QED
  BY Zenon, <1>1, <1>2, <1>3, <1>4, <1>5, <1>6, <1>7, <1>8, <1>9 DEF Terminals!Next, Terminals!Reader, Terminals!Relay

\* Get of the dashboard's summary starts one refresh at a time and fails for no other
\* request's sake, and what waits in the size queue of a terminal is what its browser
\* sent last: for every number of requests, lists, sizes, frames and pieces of output.
THEOREM Apart == MCSpec => []SharedApart
<1>1. MCInit => DInv /\ TInv
  BY DashboardInit, TerminalInit DEF MCInit
<1>2. DInv /\ UNCHANGED dashboardVars => DInv'
  BY Zenon DEF DInv, dashboardVars, Dashboards!TypeOK, Dashboards!OneRefresh, Dashboards!FailsAlone
<1>3. TInv /\ UNCHANGED terminalVars => TInv'
  BY Zenon DEF TInv, terminalVars, Terminals!TypeOK, Terminals!LatestSize
<1>4. DInv /\ TInv /\ [MCNext]_<<active, vars, dashboardVars, terminalVars>> => DInv' /\ TInv'
  BY <1>2, <1>3, DashboardStep, TerminalStep DEF MCNext
<1>5. DInv /\ TInv => SharedApart
  BY DEF DInv, TInv, SharedApart
<1> QED
  BY <1>1, <1>4, <1>5, PTL DEF MCSpec

=============================================================================
