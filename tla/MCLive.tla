------------------------------- MODULE MCLive -------------------------------
(***************************************************************************)
(* Background work that must come to an end: the migration of a volume,    *)
(* the execution of releases and the push of mirror rules to the nodes,    *)
(* each on a small instance.  They share no state; `active` names the one  *)
(* a behaviour belongs to, the state of the others stays initial.          *)
(***************************************************************************)
EXTENDS PVCMigration

CONSTANTS Parts, ReleaseId, Request, Image, None, t1, m1, m2, n1, n2, s1, s2

VARIABLES active,
          rel, op, req, executor, objects, ready, readied, solo, dbFaults, crashes,
          mirrors, statuses, running, nodes, slots, lost, restarted, mirrorUsed

releaseVars == <<rel, op, req, executor, objects, ready, readied, solo, dbFaults, crashes>>
mirrorVars == <<mirrors, statuses, running, nodes, slots, lost, restarted, mirrorUsed>>

Releases == INSTANCE Release WITH
    Template <- {t1}, MaxDBFaults <- 0, MaxCrashes <- 0, exec <- executor, cluster <- objects

Mirrors == INSTANCE NodeMirrors WITH
    Mirrors <- {m1, m2}, ManagedRules <- {}, Existing <- {m1}, Servers <- {n1, n2}, KeyServers <- {n1},
    Written <- {}, Slots <- {s1, s2}, Defs <- {1, 2}, AuthDefs <- {}, BareDefs <- {2}, Aliased <- {},
    MaxApplies <- 2, MaxTrouble <- 1, used <- mirrorUsed

MCInit == active \in Parts /\ Init /\ Releases!Init /\ Mirrors!Init

MCNext ==
    \/ active = "migration" /\ Next /\ UNCHANGED <<active, releaseVars, mirrorVars>>
    \/ active = "releases" /\ Releases!Next /\ UNCHANGED <<active, vars, mirrorVars>>
    \/ active = "mirrors" /\ Mirrors!Next /\ UNCHANGED <<active, vars, releaseVars>>

\* The fairness each module states for its own steps.
MCSpec ==
    /\ MCInit /\ [][MCNext]_<<active, vars, releaseVars, mirrorVars>>
    /\ \A m \in Migration : WF_vars(active = "migration" /\ Goroutine(m))
    /\ \A r \in ReleaseId : WF_releaseVars(active = "releases" /\ Releases!Execute(r))
    /\ \A s \in {s1, s2} : WF_mirrorVars(active = "mirrors" /\ Mirrors!WorkerStep(s))

\* Bound: requests come, and releases are stored, in the order of their numbers.
InOrder ==
    /\ \A p, q \in Request : p < q /\ req[p].pc = "idle" => req[q].pc = "idle"
    /\ \A r, s \in ReleaseId : r < s /\ rel[r].seq = 0 => rel[s].seq = 0

\* An execution of a release that began ends.
ExecutionEnds == Releases!ExecutionEnds

\* Every accepted push of a mirror rule to the nodes ends and releases its rule.
ApplyFinishes == Mirrors!ApplyFinishes
=============================================================================
