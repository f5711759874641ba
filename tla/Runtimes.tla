-------------------------------- MODULE Runtimes --------------------------------
(***************************************************************************)
(* An Agent Runtime: its row, the objects KubernetesManager keeps for it   *)
(* (claim, agent ServiceAccount, configuration, Secret, Deployment), the   *)
(* key the platform talks to it with, its agent tools and their grants.    *)
(* Every handler reads the row, works for a while and saves the whole row  *)
(* it holds.                                                               *)
(***************************************************************************)
EXTENDS Naturals

CONSTANTS Names, Edits,   \* the definitions a user sends: [name, mode, model, claim], claim = None to leave it
          Slots, MaxRequests, MaxFaults, None

VARIABLES row,        \* the RuntimeInstance, or None
          claims,     \* name -> "own", "foreign" or None
          accounts,   \* the agent ServiceAccount of a name: "own", "foreign" or None
          configs,    \* name -> generation the ConfigMap was written for, or None
          services,   \* names that have a Service
          secrets,    \* name -> the runtime key in the Secret, or None
          deploys,    \* name -> [own, gen, tools, secret], or None
          grants,     \* the runtime holds capability grants
          slots,      \* the requests in flight
          keys,       \* runtime keys generated so far
          raced,      \* a row was saved over a newer one
          renamed,    \* the name changed while objects of the old one existed
          lost,       \* a save or a deletion failed, or the platform stopped, halfway
          requests, faults

vars == <<row, claims, accounts, configs, services, secrets, deploys, grants, slots, keys, raced, renamed, lost, requests, faults>>

Idle == [pc |-> "idle"]
Foreign == [own |-> FALSE, gen |-> 0, tools |-> FALSE, secret |-> None]
cluster == <<claims, accounts, configs, services, secrets, deploys>>
counters == <<renamed, requests>>

Fault == faults < MaxFaults /\ faults' = faults + 1
NoFault == UNCHANGED faults

NewRuntime(edit) ==
  [name |-> edit.name, mode |-> edit.mode, model |-> edit.model, claim |-> edit.claim, status |-> "draft",
   key |-> None, tools |-> FALSE, secret |-> None, desired |-> 1, observed |-> 0]

\* Nothing yet, though another workload may already use a name the runtime will ask for.
Fresh ==
  /\ row = None
  /\ \E n \in Names, taken \in {"none", "claim", "account", "deployment"} :
       LET Taken(object, value) == [m \in Names |-> IF m = n /\ object = taken THEN value ELSE None]
       IN  /\ claims = Taken("claim", "foreign")
           /\ accounts = Taken("account", "foreign")
           /\ deploys = Taken("deployment", Foreign)
  /\ configs = [n \in Names |-> None] /\ services = {} /\ secrets = [n \in Names |-> None]
  /\ grants = FALSE /\ keys = 0

\* Or a runtime that was created, deployed and, perhaps, given tools and grants.
Deployed(n, tools) ==
  LET Only(value) == [m \in Names |-> IF m = n THEN value ELSE None]
      gen == IF tools THEN 2 ELSE 1
  IN  /\ row = [name |-> n, mode |-> "managed", model |-> TRUE, claim |-> n, status |-> "ready", key |-> 1,
                tools |-> tools, secret |-> n, desired |-> gen, observed |-> gen]
      /\ claims = Only("own")
      /\ accounts = Only(IF tools THEN "own" ELSE None)
      /\ configs = Only(gen) /\ services = {n} /\ secrets = Only(1)
      /\ deploys = Only([own |-> TRUE, gen |-> gen, tools |-> tools, secret |-> n])
      /\ grants = tools /\ keys = 1

Init ==
  /\ Fresh \/ \E edit \in Edits, tools \in BOOLEAN : Deployed(edit.name, tools)
  /\ slots = [s \in Slots |-> Idle]
  /\ raced = FALSE /\ renamed = FALSE /\ lost = FALSE
  /\ requests = 0 /\ faults = 0

(***************************************************************************)
(* A request holds the row it read, "mem", until it responds.              *)
(***************************************************************************)

Start(s, op, pc, data) ==
  /\ row # None /\ slots[s] = Idle /\ requests < MaxRequests
  /\ requests' = requests + 1
  /\ slots' = [slots EXCEPT ![s] = [pc |-> pc, op |-> op, data |-> data, mem |-> row, stale |-> FALSE, granted |-> FALSE]]

Respond(s) == slots' = [slots EXCEPT ![s] = Idle]
Goto(s, pc, mem) == slots' = [slots EXCEPT ![s].pc = pc, ![s].mem = mem]

\* UpdateRuntime: Save writes every column of the row the request holds.
UpdateRuntime(s, r, next) ==
  /\ row' = r
  /\ raced' = (raced \/ slots[s].stale)
  /\ slots' = [t \in Slots |-> IF t = s THEN next
                               ELSE IF slots[t] = Idle THEN Idle ELSE [slots[t] EXCEPT !.stale = TRUE]]

\* The last save of a request; when it fails, the row no longer says what was done.
Finish(s, r) ==
  /\ \/ UpdateRuntime(s, r, Idle) /\ NoFault /\ UNCHANGED lost
     \/ Fault /\ Respond(s) /\ lost' = TRUE /\ UNCHANGED <<row, raced>>
  /\ UNCHANGED <<cluster, grants, keys, counters>>

Create(edit) ==
  /\ row = None
  /\ row' = NewRuntime(edit)
  /\ UNCHANGED <<cluster, grants, slots, keys, raced, lost, counters, faults>>

(***************************************************************************)
(* Update: a new row built from the request; credentials, Secret name and  *)
(* tools are carried over, and the observed generation starts again.       *)
(***************************************************************************)

\* A runtime that is deployed keeps its mode.
ModeAllowed(cur, mode) == cur.mode = mode \/ cur.status \in {"draft", "uninstalled"}

Edited(cur, edit) ==
  [cur EXCEPT !.name = edit.name, !.mode = edit.mode, !.model = edit.model,
              !.claim = IF edit.claim = None THEN @ ELSE edit.claim]

\* Mutant: the generations are left alone.
KeepsGeneration(cur, edit) == Edited(cur, edit)

instanceFromRequest(cur, edit) == [Edited(cur, edit) EXCEPT !.desired = cur.desired + 1, !.observed = 0]

Update(s) ==
  /\ Start(s, "update", "build", FALSE)
  /\ UNCHANGED <<row, cluster, grants, keys, raced, renamed, lost, faults>>

HasObjects(n) ==
  (deploys[n] # None /\ deploys[n].own) \/ n \in services \/ configs[n] # None \/ secrets[n] # None \/ accounts[n] = "own"

UpdateSave(s, edit) ==
  LET cur == slots[s].mem IN
  /\ slots[s].pc = "build"
  /\ \/ /\ ModeAllowed(cur, edit.mode)
        /\ UpdateRuntime(s, instanceFromRequest(cur, edit), Idle)
        /\ renamed' = (renamed \/ (edit.name # cur.name /\ HasObjects(cur.name)))
     \/ ~ModeAllowed(cur, edit.mode) /\ Respond(s) /\ UNCHANGED <<row, raced, renamed>>
  /\ UNCHANGED <<cluster, grants, keys, lost, requests, faults>>

(***************************************************************************)
(* KubernetesManager.Apply: one object after the other; the first failure  *)
(* ends it.                                                                *)
(***************************************************************************)

ApplySteps == {"claim", "account", "config", "secret", "service", "deployment"}

\* Any call to the cluster may fail; so may the request's context end.
ApplyFails(s) ==
  /\ slots[s].pc \in ApplySteps
  /\ Fault
  /\ Goto(s, "failed", slots[s].mem)
  /\ UNCHANGED <<row, cluster, grants, keys, raced, lost, counters>>

\* A claim of that name that belongs to something else is refused.
applyPVC(s) ==
  LET mem == slots[s].mem
      c == IF mem.claim = None THEN mem.name ELSE mem.claim
  IN  /\ slots[s].pc = "claim"
      /\ claims' = IF claims[c] = None THEN [claims EXCEPT ![c] = "own"] ELSE claims
      /\ Goto(s, IF claims[c] = "foreign" THEN "failed" ELSE "account", [mem EXCEPT !.claim = c])
      /\ UNCHANGED <<row, accounts, configs, services, secrets, deploys, grants, keys, raced, lost, counters, faults>>

\* Without tools the runtime's own account is removed.
applyAgentServiceAccount(s) ==
  LET mem == slots[s].mem
      taken == accounts[mem.name] = "foreign"
  IN  /\ slots[s].pc = "account"
      /\ accounts' = IF taken THEN accounts ELSE [accounts EXCEPT ![mem.name] = IF mem.tools THEN "own" ELSE None]
      /\ Goto(s, IF taken /\ mem.tools THEN "failed" ELSE "config", mem)
      /\ UNCHANGED <<row, claims, configs, services, secrets, deploys, grants, keys, raced, lost, counters, faults>>

applyConfig(s) ==
  LET mem == slots[s].mem IN
  /\ slots[s].pc = "config"
  /\ configs' = [configs EXCEPT ![mem.name] = mem.desired]
  /\ Goto(s, "secret", mem)
  /\ UNCHANGED <<row, claims, accounts, services, secrets, deploys, grants, keys, raced, lost, counters, faults>>

\* The Secret keeps the name it was first given.
applySecret(s) ==
  LET mem == slots[s].mem
      n == IF mem.secret = None THEN mem.name ELSE mem.secret
  IN  /\ slots[s].pc = "secret"
      /\ secrets' = [secrets EXCEPT ![n] = mem.key]
      /\ Goto(s, "service", [mem EXCEPT !.secret = n])
      /\ UNCHANGED <<row, claims, accounts, configs, services, deploys, grants, keys, raced, lost, counters, faults>>

applyService(s) ==
  LET mem == slots[s].mem IN
  /\ slots[s].pc = "service"
  /\ services' = services \cup {mem.name}
  /\ Goto(s, "deployment", mem)
  /\ UNCHANGED <<row, claims, accounts, configs, secrets, deploys, grants, keys, raced, lost, counters, faults>>

applyDeployment(s) ==
  LET mem == slots[s].mem
      taken == deploys[mem.name] # None /\ ~deploys[mem.name].own
  IN  /\ slots[s].pc = "deployment"
      /\ deploys' = IF taken THEN deploys
                    ELSE [deploys EXCEPT ![mem.name] = [own |-> TRUE, gen |-> mem.desired, tools |-> mem.tools, secret |-> mem.secret]]
      /\ Goto(s, IF taken THEN "failed" ELSE "applied", mem)
      /\ UNCHANGED <<row, claims, accounts, configs, services, secrets, grants, keys, raced, lost, counters, faults>>

SaveFailed(s) ==
  /\ slots[s].pc = "failed"
  /\ Finish(s, [slots[s].mem EXCEPT !.status = "failed"])

\* Deploy also asks whether the Deployment is ready yet.
SaveApplied(s, ready) ==
  /\ slots[s].pc = "applied"
  /\ ready => slots[s].op = "deploy"
  /\ Finish(s, [slots[s].mem EXCEPT !.status = IF ready THEN "ready" ELSE "deploying", !.observed = slots[s].mem.desired])

(***************************************************************************)
(* Deploy, and the runtime's own key, generated when first asked for.      *)
(***************************************************************************)

Deploy(s) ==
  /\ Start(s, "deploy", IF row.mode = "external" THEN "probe" ELSE "mark", FALSE)
  /\ row.mode = "managed" => row.model
  /\ UNCHANGED <<row, cluster, grants, keys, raced, renamed, lost, faults>>

MarkDeploying(s) ==
  LET mem == [slots[s].mem EXCEPT !.status = "deploying"] IN
  /\ slots[s].pc = "mark"
  /\ \/ UpdateRuntime(s, mem, [slots[s] EXCEPT !.pc = "key", !.mem = mem]) /\ NoFault
     \/ Fault /\ Respond(s) /\ UNCHANGED <<row, raced>>
  /\ UNCHANGED <<cluster, grants, keys, lost, counters>>

\* Installing or removing the tools flips the flag, and rolls the Pods like an update of the tools does.
Prepared(op, mem) ==
  CASE op = "install" -> [mem EXCEPT !.tools = TRUE, !.desired = @ + 1]
    [] op = "remove" -> [mem EXCEPT !.tools = FALSE, !.desired = @ + 1]
    [] op = "tools" -> [mem EXCEPT !.desired = @ + 1]
    [] OTHER -> mem

\* A chat ends here: it only needs the key.
runtimeAPIKey(s) ==
  LET r == slots[s]
      mem == IF r.mem.key = None THEN [r.mem EXCEPT !.key = keys + 1] ELSE r.mem
      next == IF r.op = "chat" THEN Idle ELSE [r EXCEPT !.pc = "claim", !.mem = Prepared(r.op, mem)]
  IN  /\ r.pc = "key"
      /\ \/ r.mem.key # None /\ slots' = [slots EXCEPT ![s] = next] /\ NoFault /\ UNCHANGED <<row, raced, keys>>
         \/ r.mem.key = None /\ UpdateRuntime(s, mem, next) /\ keys' = keys + 1 /\ NoFault
         \/ r.mem.key = None /\ Fault /\ Respond(s) /\ UNCHANGED <<row, raced, keys>>
      /\ UNCHANGED <<cluster, grants, lost, counters>>

Chat(s) ==
  /\ Start(s, "chat", "key", FALSE)
  /\ row.mode = "managed"
  /\ UNCHANGED <<row, cluster, grants, keys, raced, renamed, lost, faults>>

(***************************************************************************)
(* Health: the status seen is saved with the row read before the probe.    *)
(***************************************************************************)

Health(s) ==
  /\ Start(s, "health", "probe", FALSE)
  /\ UNCHANGED <<row, cluster, grants, keys, raced, renamed, lost, faults>>

\* A managed runtime without a Deployment has failed; otherwise the probe decides.
Probe(mem) == IF mem.mode = "managed" /\ deploys[mem.name] = None THEN {"failed"} ELSE {"ready", "deploying", "degraded", "failed"}

Observed(op, mem, seen) ==
  CASE op = "deploy" -> [mem EXCEPT !.status = seen, !.observed = mem.desired]
    [] seen = "ready" -> [mem EXCEPT !.status = "ready"]
    [] mem.status # "uninstalled" -> [mem EXCEPT !.status = "degraded"]
    [] OTHER -> mem

HealthProbe(s) ==
  /\ slots[s].pc = "probe"
  /\ \E seen \in Probe(slots[s].mem) : Goto(s, "observed", Observed(slots[s].op, slots[s].mem, seen))
  /\ UNCHANGED <<row, cluster, grants, keys, raced, lost, counters, faults>>

\* The outcome of this save is ignored.
HealthSave(s) ==
  /\ slots[s].pc = "observed"
  /\ \/ UpdateRuntime(s, slots[s].mem, Idle) /\ NoFault
     \/ Fault /\ Respond(s) /\ UNCHANGED <<row, raced>>
  /\ UNCHANGED <<cluster, grants, keys, lost, counters>>

(***************************************************************************)
(* Agent tools, and the grants that let a Pod act on the platform.         *)
(***************************************************************************)

\* Mutant: the grants of a runtime that loses its tools are left to the Pod rollout.
ToolsWithoutRevocation(s, enabled) ==
  /\ Start(s, IF enabled THEN "install" ELSE "remove", "decrypt", FALSE)
  /\ row.mode = "managed" /\ row.tools # enabled
  /\ UNCHANGED <<row, cluster, grants, keys, raced, renamed, lost, faults>>

setAgentTools(s, enabled) ==
  /\ Start(s, IF enabled THEN "install" ELSE "remove", IF enabled THEN "decrypt" ELSE "revoke", FALSE)
  /\ row.mode = "managed" /\ row.tools # enabled
  /\ UNCHANGED <<row, cluster, grants, keys, raced, renamed, lost, faults>>

UpdateAgentTools(s) ==
  /\ Start(s, "tools", "decrypt", FALSE)
  /\ row.mode = "managed" /\ row.tools
  /\ UNCHANGED <<row, cluster, grants, keys, raced, renamed, lost, faults>>

Revoke(s) ==
  /\ slots[s].pc = "revoke"
  /\ \/ grants' = FALSE /\ Goto(s, "decrypt", slots[s].mem) /\ NoFault
     \/ Fault /\ Respond(s) /\ UNCHANGED grants
  /\ UNCHANGED <<row, cluster, keys, raced, lost, counters>>

\* Without a model key there is nothing to decrypt.
DecryptModelKey(s) ==
  /\ slots[s].pc = "decrypt"
  /\ IF slots[s].mem.model THEN Goto(s, "key", slots[s].mem) ELSE Respond(s)
  /\ UNCHANGED <<row, cluster, grants, keys, raced, lost, counters, faults>>

ReplaceGrants(some) ==
  /\ row # None /\ grants # some /\ requests < MaxRequests
  /\ grants' = some
  /\ requests' = requests + 1
  /\ slots' = [s \in Slots |-> IF slots[s] = Idle THEN Idle ELSE [slots[s] EXCEPT !.granted = @ \/ some]]
  /\ UNCHANGED <<row, cluster, keys, raced, renamed, lost, faults>>

\* What an agent call needs: an account of the runtime under its present name, and tools switched on.
authenticate(n) ==
  /\ accounts[n] = "own"
  /\ row # None /\ row.tools /\ row.mode = "managed" /\ row.name = n

HasAgentCapability == grants

(***************************************************************************)
(* Uninstall: KubernetesManager.Delete, then the row.  What is deleted is  *)
(* found by the name the row has now.                                      *)
(***************************************************************************)

Uninstall(s, data) ==
  /\ Start(s, "uninstall", IF row.mode = "external" THEN "saved" ELSE "deployment gone", data)
  /\ row.mode = "external" => ~data
  /\ UNCHANGED <<row, cluster, grants, keys, raced, renamed, lost, faults>>

DeleteSteps == {"deployment gone", "objects gone", "account gone", "claim gone"}

DeleteFails(s) ==
  /\ slots[s].pc \in DeleteSteps
  /\ Fault /\ lost' = TRUE
  /\ Respond(s)
  /\ UNCHANGED <<row, cluster, grants, keys, raced, counters>>

\* By name alone.
DeleteDeployment(s) ==
  /\ slots[s].pc = "deployment gone"
  /\ deploys' = [deploys EXCEPT ![slots[s].mem.name] = None]
  /\ Goto(s, "objects gone", slots[s].mem)
  /\ UNCHANGED <<row, claims, accounts, configs, services, secrets, grants, keys, raced, lost, counters, faults>>

DeleteObjects(s) ==
  LET mem == slots[s].mem IN
  /\ slots[s].pc = "objects gone"
  /\ configs' = [configs EXCEPT ![mem.name] = None] /\ services' = services \ {mem.name}
  /\ secrets' = IF mem.secret = None THEN secrets ELSE [secrets EXCEPT ![mem.secret] = None]
  /\ Goto(s, "account gone", mem)
  /\ UNCHANGED <<row, claims, accounts, deploys, grants, keys, raced, lost, counters, faults>>

DeleteAccount(s) ==
  LET mem == slots[s].mem IN
  /\ slots[s].pc = "account gone"
  /\ accounts' = IF accounts[mem.name] = "own" THEN [accounts EXCEPT ![mem.name] = None] ELSE accounts
  /\ Goto(s, IF slots[s].data /\ mem.claim # None THEN "claim gone" ELSE "saved", mem)
  /\ UNCHANGED <<row, claims, configs, services, secrets, deploys, grants, keys, raced, lost, counters, faults>>

\* A claim that belongs to something else ends the request here.
DeleteClaim(s) ==
  LET mem == slots[s].mem IN
  /\ slots[s].pc = "claim gone"
  /\ IF claims[mem.claim] = "foreign"
       THEN Respond(s) /\ lost' = TRUE /\ UNCHANGED claims
       ELSE Goto(s, "saved", mem) /\ claims' = [claims EXCEPT ![mem.claim] = None] /\ UNCHANGED lost
  /\ UNCHANGED <<row, accounts, configs, services, secrets, deploys, grants, keys, raced, counters, faults>>

SaveUninstalled(s) ==
  /\ slots[s].pc = "saved"
  /\ Finish(s, [slots[s].mem EXCEPT !.status = "uninstalled"])

\* The platform stops: every request in flight is forgotten.
Restart ==
  /\ \E s \in Slots : slots[s] # Idle
  /\ Fault
  /\ slots' = [s \in Slots |-> Idle] /\ lost' = TRUE
  /\ UNCHANGED <<row, cluster, grants, keys, raced, counters>>

Next ==
  \/ \E edit \in Edits : Create(edit) \/ \E s \in Slots : UpdateSave(s, edit)
  \/ \E s \in Slots : Update(s) \/ Deploy(s) \/ Chat(s) \/ Health(s) \/ UpdateAgentTools(s)
  \/ \E s \in Slots, b \in BOOLEAN : setAgentTools(s, b) \/ Uninstall(s, b) \/ SaveApplied(s, b)
  \/ \E b \in BOOLEAN : ReplaceGrants(b)
  \/ \E s \in Slots :
       \/ MarkDeploying(s) \/ runtimeAPIKey(s) \/ Revoke(s) \/ DecryptModelKey(s)
       \/ applyPVC(s) \/ applyAgentServiceAccount(s) \/ applyConfig(s) \/ applySecret(s)
       \/ applyService(s) \/ applyDeployment(s)
       \/ ApplyFails(s) \/ SaveFailed(s)
       \/ HealthProbe(s) \/ HealthSave(s)
       \/ DeleteDeployment(s) \/ DeleteObjects(s) \/ DeleteAccount(s) \/ DeleteClaim(s) \/ DeleteFails(s) \/ SaveUninstalled(s)
  \/ Restart

Spec == Init /\ [][Next]_vars

(***************************************************************************)
(* Properties.                                                             *)
(***************************************************************************)

Statuses == {"draft", "deploying", "ready", "degraded", "failed", "uninstalled"}

\* The row, the objects and the requests have their types.
TypeOK ==
  /\ row # None => row.status \in Statuses /\ row.observed <= row.desired /\ row.mode \in {"managed", "external"}
  /\ \A n \in Names : claims[n] \in {"own", "foreign", None} /\ accounts[n] \in {"own", "foreign", None}
  /\ \A s \in Slots : slots[s].pc \in {"idle", "build", "failed", "applied", "mark", "key", "probe", "observed", "revoke",
                                       "decrypt", "saved"} \cup ApplySteps \cup DeleteSteps

Settled == row # None /\ row.mode = "managed" /\ ~raced /\ ~lost /\ \A s \in Slots : slots[s] = Idle

\* A runtime whose observed generation has caught up is the one described by its row: the Deployment runs that
\* generation with those tools, over a Secret that holds the key the platform will present (Deploy,
\* setAgentTools, KubernetesManager.Apply).  A row saved over a newer one, or a step that failed halfway, may
\* break the agreement until the next deployment.
ObservedInForce ==
  Settled /\ row.status \in {"ready", "deploying"} /\ row.observed = row.desired =>
    /\ deploys[row.name] = [own |-> TRUE, gen |-> row.desired, tools |-> row.tools, secret |-> row.secret]
    /\ secrets[row.secret] = row.key /\ row.key # None
    /\ configs[row.name] = row.desired /\ row.name \in services
    /\ (accounts[row.name] = "own") = row.tools

\* After Uninstall nothing of the runtime is left but its claim, unless the runtime was renamed while it had
\* objects: those are looked up by the present name.
NothingLeft ==
  Settled /\ ~renamed /\ row.status = "uninstalled" =>
    \A n \in Names : ~HasObjects(n)

\* Once the removal of the tools has begun to change the cluster, the old Pod can authorise nothing, whatever
\* its account still is, unless an operator has granted something since (setAgentTools revokes first).
RevokedFirst ==
  \A s \in Slots :
    slots[s] # Idle /\ slots[s].op = "remove" /\ slots[s].pc \in {"key", "applied", "failed"} \cup ApplySteps /\ ~slots[s].granted =>
      ~(HasAgentCapability /\ \E n \in Names : authenticate(n))
====
