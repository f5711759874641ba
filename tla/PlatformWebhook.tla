-------------------------- MODULE PlatformWebhook ---------------------------
(***************************************************************************)
(* How a build asks the platform to update itself: a signed request with   *)
(* a timestamp and a nonce (service/platform/release_service.go), handled  *)
(* by PlatformHandler.Webhook (api/delivery/platform_handler.go).  The     *)
(* sender repeats what was not answered, so two handlers may hold the same *)
(* request; a nonce is forgotten when it expires, and the timestamp must   *)
(* be too old by then.                                                     *)
(***************************************************************************)
EXTENDS Integers

CONSTANTS
    Deliveries,   \* requests a build signs
    Skew,         \* webhookMaxSkew, in ticks of the clock
    TTL,          \* for how long a nonce is kept
    Prefixes,     \* image repositories
    DefaultImagePrefix,  \* one of them
    Handlers,     \* requests served at once
    Null,         \* no value
    MaxTime,      \* bound: the clock
    MaxKeys,      \* bound: webhook secrets that are generated
    MaxReceipts,  \* bound: requests that arrive
    MaxFailures   \* bound: calls that fail

\* A nonce is kept for 24 hours, a timestamp may be five minutes off either way.
ASSUME WebhookAssumption ==
    /\ {Skew, TTL, MaxTime, MaxKeys, MaxReceipts, MaxFailures} \subseteq Nat
    /\ TTL > 2 * Skew
    /\ \A t \in 0 .. MaxTime + TTL : t # Null

VARIABLES
    clock,
    secret,       \* the number of the webhook secret, 0 for none
    prefixes,     \* repositories that were allowed, {} when nothing was stored
    sent,         \* delivery -> Null or what was signed
    nonces,       \* delivery -> when its nonce expires, or Null
    handlers,     \* a handler -> the delivery it holds and how far it is
    releases,     \* delivery -> platform releases created for it
    failed,       \* deliveries whose handler failed after it stored the nonce
    receipts, failures

webhookVars == <<clock, secret, prefixes, sent, nonces, handlers, releases, failed, receipts, failures>>

Free == [pc |-> "idle", delivery |-> Null]

WebhookInit ==
    /\ clock = 0 /\ secret = 0 /\ prefixes = {}
    /\ sent = [d \in Deliveries |-> Null] /\ nonces = [d \in Deliveries |-> Null]
    /\ handlers = [s \in Handlers |-> Free]
    /\ releases = [d \in Deliveries |-> 0] /\ failed = {}
    /\ receipts = 0 /\ failures = 0

Advance(s, pc) == handlers' = [handlers EXCEPT ![s].pc = pc]
Respond(s) == handlers' = [handlers EXCEPT ![s] = Free]
Fault == failures < MaxFailures /\ failures' = failures + 1

-----------------------------------------------------------------------------
\* GenerateWebhookSecret replaces the secret.
GenerateWebhookSecret ==
    /\ secret < MaxKeys /\ secret' = secret + 1
    /\ UNCHANGED <<clock, prefixes, sent, nonces, handlers, releases, failed, receipts, failures>>

\* SetImagePrefixes: at least one repository.
SetImagePrefixes(allowed) ==
    /\ allowed # {} /\ allowed # prefixes /\ prefixes' = allowed
    /\ UNCHANGED <<clock, secret, sent, nonces, handlers, releases, failed, receipts, failures>>

\* A build signs a request; its clock may be ahead or behind.
Sign(d, ts, prefix) ==
    /\ sent[d] = Null /\ secret > 0
    /\ sent' = [sent EXCEPT ![d] = [ts |-> ts, key |-> secret, prefix |-> prefix]]
    /\ UNCHANGED <<clock, secret, prefixes, nonces, handlers, releases, failed, receipts, failures>>

\* The signature is right for the secret of now, the timestamp close to the clock.
ValidateWebhook(d) ==
    /\ sent[d].key = secret
    /\ sent[d].ts - clock <= Skew /\ clock - sent[d].ts <= Skew

\* A request arrives, for the first time or again.
Webhook(s, d) ==
    /\ handlers[s] = Free /\ sent[d] # Null /\ receipts < MaxReceipts
    /\ receipts' = receipts + 1
    /\ IF ValidateWebhook(d) THEN handlers' = [handlers EXCEPT ![s] = [pc |-> "image", delivery |-> d]] ELSE UNCHANGED handlers
    /\ UNCHANGED <<clock, secret, prefixes, sent, nonces, releases, failed, failures>>

\* The default stands in for what is not stored or cannot be read.
ImagePrefixes(stored) == IF stored = {} THEN {DefaultImagePrefix} ELSE stored

\* The image is of a repository that is allowed.
ValidateImage(s) ==
    /\ handlers[s].pc = "image"
    /\ \E stored \in {prefixes, {}} :
          /\ IF stored = prefixes THEN UNCHANGED failures ELSE Fault
          /\ IF sent[handlers[s].delivery].prefix \in ImagePrefixes(stored) THEN Advance(s, "expire") ELSE Respond(s)
    /\ UNCHANGED <<clock, secret, prefixes, sent, nonces, releases, failed, receipts>>

\* ConsumeWebhookNonce: what has expired is deleted ...
Expired(d) == nonces[d] # Null /\ nonces[d] <= clock
DeleteExpiredPlatformWebhookNonces(s) ==
    /\ handlers[s].pc = "expire"
    /\ \/ /\ nonces' = [d \in Deliveries |-> IF Expired(d) THEN Null ELSE nonces[d]]
          /\ Advance(s, "nonce") /\ UNCHANGED failures
       \/ Fault /\ Respond(s) /\ UNCHANGED nonces
    /\ UNCHANGED <<clock, secret, prefixes, sent, releases, failed, receipts>>

\* ... and the nonce stored; a unique index refuses it the second time.
NonceUnchecked(d) == TRUE
NonceFree(d) == nonces[d] = Null
CreatePlatformWebhookNonce(s) ==
    /\ handlers[s].pc = "nonce"
    /\ LET d == handlers[s].delivery IN
       \/ NonceFree(d) /\ nonces' = [nonces EXCEPT ![d] = clock + TTL] /\ Advance(s, "create") /\ UNCHANGED failures
       \/ ~NonceFree(d) /\ Respond(s) /\ UNCHANGED <<nonces, failures>>
       \/ Fault /\ Respond(s) /\ UNCHANGED nonces
    /\ UNCHANGED <<clock, secret, prefixes, sent, releases, failed, receipts>>

\* CreateRelease, which Apply takes up; a failure has used the nonce up.
StartRelease(s) ==
    /\ handlers[s].pc = "create" /\ Respond(s)
    /\ LET d == handlers[s].delivery IN
       \/ releases' = [releases EXCEPT ![d] = @ + 1] /\ UNCHANGED <<failed, failures>>
       \/ Fault /\ failed' = failed \cup {d} /\ UNCHANGED releases
    /\ UNCHANGED <<clock, secret, prefixes, sent, nonces, receipts>>

Tick ==
    /\ clock < MaxTime /\ clock' = clock + 1
    /\ \A s \in Handlers : handlers[s] = Free          \* a request is handled well within a tick
    /\ UNCHANGED <<secret, prefixes, sent, nonces, handlers, releases, failed, receipts, failures>>

WebhookNext ==
    \/ GenerateWebhookSecret \/ Tick
    \/ \E allowed \in SUBSET Prefixes : SetImagePrefixes(allowed)
    \/ \E d \in Deliveries, p \in Prefixes, ts \in clock - Skew .. clock + Skew : Sign(d, ts, p)
    \/ \E s \in Handlers :
          \/ \E d \in Deliveries : Webhook(s, d)
          \/ ValidateImage(s) \/ DeleteExpiredPlatformWebhookNonces(s)
          \/ CreatePlatformWebhookNonce(s) \/ StartRelease(s)

WebhookSpec == WebhookInit /\ [][WebhookNext]_webhookVars

-----------------------------------------------------------------------------
WebhookTypeOK ==
    /\ clock \in 0 .. MaxTime /\ secret \in 0 .. MaxKeys /\ prefixes \subseteq Prefixes
    /\ \A d \in Deliveries : nonces[d] = Null \/ nonces[d] \in 0 .. MaxTime + TTL
    /\ \A s \in Handlers : handlers[s].pc \in {"idle", "image", "expire", "nonce", "create"}
    /\ receipts \in 0 .. MaxReceipts /\ failures \in 0 .. MaxFailures

\* A request that is repeated, at the same time or after its nonce was forgotten,
\* starts one release; and it is refused as a repetition only if it has started
\* one, or its handler failed after it stored the nonce.
DeliveredOnce ==
    \A d \in Deliveries :
        /\ releases[d] <= 1
        /\ nonces[d] # Null =>
              releases[d] = 1 \/ d \in failed \/ \E s \in Handlers : handlers[s] = [pc |-> "create", delivery |-> d]
=============================================================================
