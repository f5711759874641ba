----------------------------- MODULE NodeMirrors -----------------------------
(***************************************************************************)
(* Node registry mirrors: the rules the platform stores, the background    *)
(* task that writes /etc/rancher/k3s/registries.yaml on the selected nodes *)
(* and restarts K3s, and the inspection that compares a node with the      *)
(* rules.                                                                  *)
(*                                                                         *)
(* A slot is one goroutine: an HTTP request in flight, or the background   *)
(* task a request left behind.  A rule's payload (endpoints, credential,   *)
(* TLS flag) is one definition out of Defs; registries.yaml is the map     *)
(* from each rule to the definition it was rendered with, 0 for a rule     *)
(* that is not in the file.                                                *)
(***************************************************************************)
EXTENDS Naturals, FiniteSets

CONSTANTS Mirrors,          \* rule ids; an id is never reused by the store
          ManagedRules,     \* the rules owned by a managed registry
          Existing,         \* the rules that exist at the start
          Servers,          \* servers with a cluster role
          KeyServers,       \* those with a configured SSH key
          Written,          \* those that carry the existing rules at the start
          Slots,
          Defs,             \* rule definitions
          AuthDefs,         \* definitions with a username and a credential
          BareDefs,         \* definitions with a username and no credential
          Aliased,          \* rules stored under a name that is not normalised
          MaxApplies,       \* bound: background tasks started
          MaxTrouble,       \* bound: edits of the rules and faults, together
          None

VARIABLES mirrors,          \* node_registry_mirrors rows
          statuses,         \* node_registry_mirror_nodes rows
          running,          \* MirrorService.running
          nodes,            \* what is on each server
          slots,            \* goroutines
          lost,             \* rules a stale whole-row save has been written over
          restarted,        \* the platform process has been restarted
          used              \* operations and faults counted against the bounds

vars == <<mirrors, statuses, running, nodes, slots, lost, restarted, used>>

ApplyStates == {"", "applying", "succeeded", "failed"}
Row == [life : {"new", "live", "gone"}, def : Defs, enabled : BOOLEAN,
        apply : ApplyStates, verify : {"", "succeeded", "failed"}]
NodeStates == {"none", "pending", "applying", "success", "failed", "skipped"}
Content == [Mirrors -> Defs \cup {0}]
NoFile == [m \in Mirrors |-> 0]
OnDisk == [file : Content, backup : Content, tmp : Content, loaded : Content]

Idle == [op |-> "idle", mirror |-> None, row |-> None, seen |-> None,
         content |-> NoFile, chosen |-> {}, left |-> {}, good |-> {},
         at |-> None, pc |-> "", alone |-> TRUE, before |-> NoFile]

Edit == used.edits + used.faults < MaxTrouble /\ used' = [used EXCEPT !.edits = @ + 1]
Apply == used.applies < MaxApplies /\ used' = [used EXCEPT !.applies = @ + 1]
Fault == used.edits + used.faults < MaxTrouble /\ used' = [used EXCEPT !.faults = @ + 1]

Live(m) == mirrors[m].life = "live"
Busy(s) == slots[s].op # "idle"

(***************************************************************************)
(* The store.                                                              *)
(***************************************************************************)

\* db.Save of a row built or read earlier: every column is overwritten, and a
\* deleted row is inserted again.  `read` is the row the writer started from.
UpdateNodeRegistryMirror(m, row, read) ==
  /\ mirrors' = [mirrors EXCEPT ![m] = [row EXCEPT !.life = "live"]]
  /\ lost' = IF mirrors[m] = read THEN lost ELSE lost \cup {m}

\* Status rows preloaded with the rule are inserted again when they are missing.
SavePreloaded(m, preloaded) ==
  [statuses EXCEPT ![m] = [s \in Servers |->
     IF statuses[m][s] = "none" THEN preloaded[s] ELSE statuses[m][s]]]

UpsertNodeRegistryMirrorStatus(m, who, status) ==
  statuses' = [statuses EXCEPT ![m] = [s \in Servers |->
     IF s \in who THEN status ELSE statuses[m][s]]]

DeleteNodeRegistryMirror(m) ==
  /\ mirrors' = [mirrors EXCEPT ![m].life = "gone"]
  /\ statuses' = [statuses EXCEPT ![m] = [s \in Servers |-> "none"]]

UpdateNodeRegistryMirrorVerification(m, result) ==
  mirrors' = IF Live(m) THEN [mirrors EXCEPT ![m].verify = result] ELSE mirrors

(***************************************************************************)
(* Rendering and inspection.                                               *)
(***************************************************************************)

Enabled(m) == Live(m) /\ mirrors[m].enabled

RenderK3sRegistries ==
  [m \in Mirrors |-> IF Enabled(m) THEN mirrors[m].def ELSE 0]

\* Rendering is refused when no rule is enabled, and when an enabled rule names
\* a user and has no stored credential.
RenderK3sRegistriesWithStoredCredentials(content) ==
  /\ \A m \in Mirrors : Enabled(m) => mirrors[m].def \notin BareDefs
  /\ content = RenderK3sRegistries
  /\ content # NoFile

\* What an inspection may show of one rule: the endpoints, and whether
\* authentication is configured.
Safe(d, auth) == [endpoints |-> d, auth |-> auth]

expectedRegistryConfigs ==
  [m \in {x \in Mirrors : Enabled(x)} |->
     Safe(mirrors[m].def, mirrors[m].def \in AuthDefs \cup BareDefs)]

\* The parser normalises the name of a rule it finds under `mirrors`, and looks
\* its authentication up in `configs` under the normalised name.
parseSafeRegistryConfigs(content) ==
  [m \in {x \in Mirrors : content[x] # 0} |->
     Safe(content[m], content[m] \in AuthDefs /\ m \notin Aliased)]

classifyRegistryConfig(expected, actual) ==
  LET missing == DOMAIN expected \ DOMAIN actual
      extra == DOMAIN actual \ DOMAIN expected
      changed == {m \in DOMAIN expected \cap DOMAIN actual : expected[m] # actual[m]}
  IN  IF missing \cup extra \cup changed = {} THEN "matching"
      ELSE IF DOMAIN actual = {} /\ DOMAIN expected # {} THEN "missing"
      ELSE "drifted"

\* The states an inspection of server n may report now.
inspect(n) ==
  IF n \notin KeyServers THEN {"unsupported"}
  ELSE {"unreachable",
        classifyRegistryConfig(expectedRegistryConfigs,
                               parseSafeRegistryConfigs(nodes[n].file))}

Init ==
  /\ mirrors = [m \in Mirrors |->
       [life |-> IF m \in Existing THEN "live" ELSE "new", enabled |-> TRUE,
        def |-> CHOOSE d \in Defs : d \notin BareDefs, apply |-> "", verify |-> ""]]
  /\ statuses = [m \in Mirrors |-> [n \in Servers |-> "none"]]
  /\ running = {}
  /\ nodes = [n \in Servers |->
       LET file == IF n \in Written THEN RenderK3sRegistries ELSE NoFile
       IN  [file |-> file, backup |-> NoFile, tmp |-> NoFile, loaded |-> file]]
  /\ slots = [s \in Slots |-> Idle]
  /\ lost = {}
  /\ restarted = FALSE
  /\ used = [edits |-> 0, applies |-> 0, faults |-> 0]

(***************************************************************************)
(* Rules: create, edit, delete, verify.                                    *)
(***************************************************************************)

\* A rule is always created enabled: gorm writes the column default for a
\* zero `enabled`.
Create(m) ==
  /\ Edit
  /\ mirrors[m].life = "new"
  /\ \E d \in Defs : mirrors' = [mirrors EXCEPT ![m].life = "live", ![m].def = d]
  /\ UNCHANGED <<statuses, running, nodes, slots, lost, restarted>>

\* Update reads the row and builds the new one from it ...
UpdateRead(s, m) ==
  /\ Edit
  /\ ~Busy(s) /\ Live(m) /\ m \notin ManagedRules
  /\ slots' = [slots EXCEPT ![s] = [Idle EXCEPT !.op = "update", !.mirror = m,
                                                !.row = mirrors[m]]]
  /\ UNCHANGED <<mirrors, statuses, running, nodes, lost, restarted>>

\* The edited row: the apply columns come from the row that was read, the
\* verification columns are dropped.
build(row, d, enabled) ==
  [row EXCEPT !.def = d, !.enabled = enabled, !.verify = ""]

\* ... and saves it whole.
UpdateSave(s) ==
  /\ slots[s].op = "update"
  /\ \E d \in Defs, e \in BOOLEAN :
       UpdateNodeRegistryMirror(slots[s].mirror, build(slots[s].row, d, e), slots[s].row)
  /\ slots' = [slots EXCEPT ![s] = Idle]
  /\ UNCHANGED <<statuses, running, nodes, restarted, used>>

Delete(m) ==
  /\ Edit
  /\ Live(m) /\ m \notin ManagedRules
  /\ DeleteNodeRegistryMirror(m)
  /\ UNCHANGED <<running, nodes, slots, lost, restarted>>

VerifyRead(s, m) ==
  /\ Edit
  /\ ~Busy(s) /\ Live(m)
  /\ slots' = [slots EXCEPT ![s] = [Idle EXCEPT !.op = "verify", !.mirror = m,
                                                !.row = [mirrors[m] EXCEPT !.apply = "", !.verify = ""]]]
  /\ UNCHANGED <<mirrors, statuses, running, nodes, lost, restarted>>

\* What probing a rule may return: a disabled rule is never probed, and every
\* endpoint must answer with the stored credential.
verifyNodeRegistryMirrorConnection(row) ==
  IF ~row.enabled \/ row.def \in BareDefs THEN {"failed"} ELSE {"succeeded", "failed"}

VerifySave(s) ==
  /\ slots[s].op = "verify"
  /\ \E result \in verifyNodeRegistryMirrorConnection(slots[s].row) :
       UpdateNodeRegistryMirrorVerification(slots[s].mirror, result)
  /\ slots' = [slots EXCEPT ![s] = Idle]
  /\ UNCHANGED <<statuses, running, nodes, lost, restarted, used>>

(***************************************************************************)
(* Applying a rule: StartApply and the background runApply.                *)
(***************************************************************************)

StartApplyRead(s, m) ==
  /\ Apply
  /\ ~Busy(s) /\ Enabled(m)
  /\ slots' = [slots EXCEPT ![s] = [Idle EXCEPT !.op = "start", !.mirror = m,
                                     !.row = mirrors[m], !.seen = statuses[m]]]
  /\ UNCHANGED <<mirrors, statuses, running, nodes, lost, restarted>>

selectClusterServers(chosen) == chosen \in SUBSET Servers \ {{}}

\* The rules are listed and rendered after the selected row was read.
StartApplyRender(s) ==
  /\ slots[s].op = "start"
  /\ \E chosen \in SUBSET Servers :
       /\ selectClusterServers(chosen)
       /\ RenderK3sRegistriesWithStoredCredentials(RenderK3sRegistries)
       /\ slots' = [slots EXCEPT ![s].op = "begin", ![s].content = RenderK3sRegistries,
                                 ![s].chosen = chosen, ![s].left = chosen]
  /\ UNCHANGED <<mirrors, statuses, running, nodes, lost, restarted, used>>

\* Mutant: the mark is set without looking at it.
beginApplyUnguarded(m) == running' = running \cup {m}

beginApply(m) == m \notin running /\ running' = running \cup {m}
finishApply(m) == running' = running \ {m}

\* The task is accepted: per-server status pending, the row saved "applying",
\* and the goroutine started.
StartApplyAccept(s) ==
  LET m == slots[s].mirror
  IN  /\ slots[s].op = "begin"
      /\ beginApply(m)
      /\ LET pending == [n \in Servers |->
                IF n \in slots[s].chosen THEN "pending" ELSE statuses[m][n]]
         IN  statuses' = [statuses EXCEPT ![m] = [n \in Servers |->
                IF pending[n] = "none" THEN slots[s].seen[n] ELSE pending[n]]]
      /\ UpdateNodeRegistryMirror(m, [slots[s].row EXCEPT !.apply = "applying"], slots[s].row)
      /\ slots' = [slots EXCEPT ![s].op = "run", ![s].row = None, ![s].seen = None]
      /\ UNCHANGED <<nodes, restarted, used>>

\* Already running, or the store failed after some of the statuses were written:
\* nothing is started and the single-flight mark is released.
StartApplyReject(s) ==
  LET m == slots[s].mirror
  IN  /\ slots[s].op \in {"start", "begin"}
      /\ slots' = [slots EXCEPT ![s] = Idle]
      /\ \/ /\ slots[s].op = "start" \/ m \in running
            /\ UNCHANGED <<statuses, used>>
         \/ /\ slots[s].op = "begin" /\ m \notin running /\ Fault
            /\ \E some \in SUBSET slots[s].chosen :
                 UpsertNodeRegistryMirrorStatus(m, some, "pending")
      /\ UNCHANGED <<mirrors, running, nodes, lost, restarted>>

Workers == {"run", "access"}
OnNode(s, n) == slots[s].op \in Workers /\ slots[s].at = n

\* Another script is on the same server: both lose the ghost mark `alone`.
EnterNode(s, n) ==
  LET others == {o \in Slots \ {s} : OnNode(o, n)}
  IN  slots' = [o \in Slots |->
        IF o = s THEN [slots[s] EXCEPT !.at = n, !.pc = "prepare",
                         !.left = slots[s].left \ {n}, !.alone = (others = {}),
                         !.before = nodes[n].file]
        ELSE IF o \in others THEN [slots[o] EXCEPT !.alone = FALSE]
        ELSE slots[o]]

\* The next selected server: the task records "applying" first; a server with no
\* SSH key is skipped.
ApplyNextServer(s) ==
  LET m == slots[s].mirror
  IN  /\ slots[s].op \in Workers /\ slots[s].at = None
      /\ \E n \in slots[s].left :
           \/ /\ n \in KeyServers
              /\ EnterNode(s, n)
              /\ IF slots[s].op = "run"
                   THEN UpsertNodeRegistryMirrorStatus(m, {n}, "applying")
                   ELSE UNCHANGED statuses
           \/ /\ n \notin KeyServers
              /\ slots' = [slots EXCEPT ![s].left = @ \ {n}]
              /\ UpsertNodeRegistryMirrorStatus(m, {n}, "skipped")
      /\ UNCHANGED <<mirrors, running, nodes, lost, restarted, used>>

(***************************************************************************)
(* The shell script on the node, one step per command that changes it.     *)
(***************************************************************************)

Step(s, from, to) ==
  /\ slots[s].op \in Workers /\ slots[s].pc = from
  /\ slots' = [slots EXCEPT ![s].pc = to]
  /\ UNCHANGED <<mirrors, statuses, running, lost, restarted>>

\* The current file is copied to the backup and the new one written beside it.
ScriptPrepare(s) ==
  LET n == slots[s].at
  IN  /\ Step(s, "prepare", "move") /\ UNCHANGED used
      /\ nodes' = [nodes EXCEPT ![n].tmp = slots[s].content,
                     ![n].backup = IF nodes[n].file = NoFile THEN @ ELSE nodes[n].file]

\* mv fails under `set -e` when another script has already moved the file away.
ScriptMove(s) ==
  LET n == slots[s].at
  IN  \/ /\ Step(s, "move", "failed")
         /\ nodes[n].tmp = NoFile
         /\ UNCHANGED <<nodes, used>>
      \/ /\ Step(s, "move", "restart")
         /\ nodes[n].tmp # NoFile
         /\ nodes' = [nodes EXCEPT ![n].file = nodes[n].tmp, ![n].tmp = NoFile]
         /\ UNCHANGED used

ScriptRestart(s) ==
  LET n == slots[s].at
  IN  /\ Step(s, "restart", "success") /\ UNCHANGED used
      /\ nodes' = [nodes EXCEPT ![n].loaded = nodes[n].file]

\* The unit did not come back: the backup is copied over the file, if there is
\* one, and K3s is restarted on it.
ScriptRestore(s) ==
  LET n == slots[s].at
  IN  /\ Step(s, "restart", "failed") /\ Fault
      /\ nodes' = IF nodes[n].backup = NoFile THEN nodes
                  ELSE [nodes EXCEPT ![n].file = nodes[n].backup,
                                     ![n].loaded = nodes[n].backup]

\* No K3s unit, a lost connection or the 90 s timeout: the script stops where it
\* is and the applier reports a failure.
ScriptAbort(s) ==
  /\ \E pc \in {"prepare", "move", "restart"} : Step(s, pc, "failed")
  /\ Fault
  /\ UNCHANGED nodes

\* The result of one server is counted and recorded.
ApplyServerDone(s) ==
  LET n == slots[s].at
      result == slots[s].pc
  IN  /\ slots[s].op \in Workers /\ result \in {"success", "failed"}
      /\ UpsertNodeRegistryMirrorStatus(slots[s].mirror, {n}, result)
      /\ slots' = [slots EXCEPT ![s].at = None, ![s].pc = "",
                     ![s].alone = TRUE, ![s].before = NoFile,
                     ![s].good = IF result = "success" THEN @ \cup {n} ELSE @]
      /\ UNCHANGED <<mirrors, running, nodes, lost, restarted, used>>

Outcome(s) == IF slots[s].good = slots[s].chosen THEN "succeeded" ELSE "failed"

\* Mutant: a rule deleted meanwhile ends the task without releasing the mark.
RunApplyReadLeaks(s) ==
  /\ slots[s].op = "run" /\ slots[s].at = None /\ slots[s].left = {}
  /\ slots' = IF Live(slots[s].mirror)
                THEN [slots EXCEPT ![s].op = "final", ![s].row = mirrors[slots[s].mirror],
                                   ![s].seen = statuses[slots[s].mirror]]
                ELSE [slots EXCEPT ![s] = Idle]
  /\ UNCHANGED <<mirrors, statuses, running, nodes, lost, restarted, used>>

\* After the last server the task reads the row again ...
RunApplyRead(s) ==
  /\ slots[s].op = "run" /\ slots[s].at = None /\ slots[s].left = {}
  /\ IF Live(slots[s].mirror)
       THEN /\ slots' = [slots EXCEPT ![s].op = "final", ![s].row = mirrors[slots[s].mirror],
                                      ![s].seen = statuses[slots[s].mirror]]
            /\ UNCHANGED running
       ELSE /\ slots' = [slots EXCEPT ![s] = Idle]
            /\ finishApply(slots[s].mirror)
  /\ UNCHANGED <<mirrors, statuses, nodes, lost, restarted, used>>

\* ... and saves it whole with the outcome; a failed save is ignored.
RunApplySave(s) ==
  LET m == slots[s].mirror
  IN  /\ slots[s].op = "final"
      /\ UpdateNodeRegistryMirror(m, [slots[s].row EXCEPT !.apply = Outcome(s)], slots[s].row)
      /\ statuses' = SavePreloaded(m, slots[s].seen)
      /\ finishApply(m)
      /\ slots' = [slots EXCEPT ![s] = Idle]
      /\ UNCHANGED <<nodes, restarted, used>>

(***************************************************************************)
(* A managed registry pushes its own rule from inside the request, with no *)
(* single-flight mark, and saves the row it read before the first SSH call.*)
(***************************************************************************)

ApplyNodeAccessRead(s, m) ==
  /\ Apply
  /\ ~Busy(s) /\ m \in ManagedRules /\ Live(m)
  /\ RenderK3sRegistriesWithStoredCredentials(RenderK3sRegistries)
  /\ \E chosen \in SUBSET Servers \ {{}} :
       slots' = [slots EXCEPT ![s] = [Idle EXCEPT !.op = "access", !.mirror = m,
                   !.row = mirrors[m], !.seen = statuses[m],
                   !.content = RenderK3sRegistries, !.chosen = chosen, !.left = chosen]]
  /\ UNCHANGED <<mirrors, statuses, running, nodes, lost, restarted>>

ApplyNodeAccessSave(s) ==
  LET m == slots[s].mirror
  IN  /\ slots[s].op = "access" /\ slots[s].at = None /\ slots[s].left = {}
      /\ UpdateNodeRegistryMirror(m, [slots[s].row EXCEPT !.apply = Outcome(s)], slots[s].row)
      /\ statuses' = SavePreloaded(m, slots[s].seen)
      /\ slots' = [slots EXCEPT ![s] = Idle]
      /\ UNCHANGED <<running, nodes, restarted, used>>

\* The managed registry's Update writes a freshly built rule row: the apply and
\* verification columns are wiped whatever is running.
UpdateAssociation(m) ==
  /\ Edit
  /\ m \in ManagedRules /\ Live(m)
  /\ \E d \in Defs \ BareDefs :
       UpdateNodeRegistryMirror(m, [mirrors[m] EXCEPT !.def = d, !.enabled = TRUE,
                                                      !.apply = "", !.verify = ""], mirrors[m])
  /\ UNCHANGED <<statuses, running, nodes, slots, restarted>>

\* RestartNodeK3s loads whatever file is on the node.
RestartNodeK3s(n) ==
  /\ Fault
  /\ n \in KeyServers
  /\ nodes' = [nodes EXCEPT ![n].loaded = nodes[n].file]
  /\ UNCHANGED <<mirrors, statuses, running, slots, lost, restarted>>

\* The platform process restarts: requests, tasks and the running map are gone,
\* a script stops where it is.
ProcessRestart ==
  /\ Fault
  /\ ~restarted
  /\ restarted' = TRUE
  /\ running' = {}
  /\ slots' = [s \in Slots |-> Idle]
  /\ UNCHANGED <<mirrors, statuses, nodes, lost>>

WorkerStep(s) ==
  \/ ApplyNextServer(s) \/ ScriptPrepare(s) \/ ScriptMove(s)
  \/ ScriptRestart(s) \/ ScriptRestore(s) \/ ScriptAbort(s) \/ ApplyServerDone(s)
  \/ RunApplyRead(s) \/ RunApplySave(s) \/ ApplyNodeAccessSave(s)

Next ==
  \/ \E m \in Mirrors : Create(m) \/ Delete(m) \/ UpdateAssociation(m)
  \/ \E s \in Slots, m \in Mirrors :
       UpdateRead(s, m) \/ VerifyRead(s, m) \/ StartApplyRead(s, m) \/ ApplyNodeAccessRead(s, m)
  \/ \E s \in Slots :
       \/ UpdateSave(s) \/ VerifySave(s)
       \/ StartApplyRender(s) \/ StartApplyAccept(s) \/ StartApplyReject(s)
       \/ WorkerStep(s)
  \/ \E n \in Servers : RestartNodeK3s(n)
  \/ ProcessRestart

\* A background task runs under its own 10-minute context, detached from the
\* request: each of its steps is taken.
Fairness == \A s \in Slots : WF_vars(WorkerStep(s))

Spec == Init /\ [][Next]_vars /\ Fairness
(***************************************************************************)
(* Properties.                                                             *)
(***************************************************************************)

\* Every variable stays in its domain.
TypeOK ==
  /\ mirrors \in [Mirrors -> Row]
  /\ statuses \in [Mirrors -> [Servers -> NodeStates]]
  /\ running \subseteq Mirrors
  /\ nodes \in [Servers -> OnDisk]
  /\ \A s \in Slots :
       /\ slots[s].op \in {"idle", "update", "verify", "start", "begin", "run", "final", "access"}
       /\ slots[s].content \in Content
       /\ slots[s].left \subseteq slots[s].chosen /\ slots[s].good \subseteq slots[s].chosen
  /\ lost \subseteq Mirrors /\ restarted \in BOOLEAN

\* MirrorService.running: a rule is marked exactly while one background task
\* works for it, on every path out of StartApply and runApply.
SingleFlight ==
  \A m \in Mirrors :
    Cardinality({s \in Slots : slots[s].op \in {"run", "final"} /\ slots[s].mirror = m})
      = IF m \in running THEN 1 ELSE 0

\* A rule shown as "applying" has a task working for it, unless the process was
\* restarted or a whole-row save from an older read was written over the row.
ApplyingHasTask ==
  \A m \in Mirrors :
    Live(m) /\ mirrors[m].apply = "applying" => m \in running \/ restarted \/ m \in lost

\* A script that reports success, with no other script on the server meanwhile,
\* left K3s running on the configuration its task rendered.
SuccessInstalled ==
  \A s \in Slots :
    slots[s].pc = "success" /\ slots[s].alone
      => nodes[slots[s].at].loaded = slots[s].content

\* When K3s does not come back on the new file, a script alone on the server
\* puts back the file that was there when it began, and K3s loads it.
RestoreKeepsPrevious ==
  \A s \in Slots :
    ScriptRestore(s) /\ slots[s].alone /\ slots[s].before # NoFile
      => LET n == slots[s].at
         IN  nodes'[n].file = slots[s].before /\ nodes'[n].loaded = slots[s].before

\* runApply saves "succeeded" only when every selected server is recorded as
\* "success" (its record may be gone with a rule deleted meanwhile).  The push
\* of a managed registry writes the same records unguarded, so its rules are out.
SucceededCoversSelection ==
  \A s \in Slots :
    RunApplySave(s) /\ Outcome(s) = "succeeded" /\ slots[s].mirror \notin ManagedRules
      => \A n \in slots[s].chosen : statuses[slots[s].mirror][n] \in {"success", "none"}

\* An inspection never reports a node that carries exactly the current enabled
\* rules as missing or drifted.
InspectAgrees ==
  \A n \in Servers :
    nodes[n].file = RenderK3sRegistries => inspect(n) \cap {"missing", "drifted"} = {}

\* Every accepted task ends and releases its rule.
ApplyFinishes == \A m \in Mirrors : (m \in running) ~> (m \notin running)
=============================================================================
