--------------------------- MODULE MCPlatformLive ---------------------------
(***************************************************************************)
(* What goes on inside one process of the platform and must come to an     *)
(* end: the releases of the platform itself, requests for the dashboard    *)
(* that share a refresh, and a terminal.  They share no state; `active`    *)
(* names the one a behaviour belongs to, the others stay initial.          *)
(***************************************************************************)
EXTENDS PlatformRelease

CONSTANTS Parts,                        \* the parts to check
          Gets, Lists,                  \* requests for the dashboard, the lists it is made of
          Sizes, Default,               \* window sizes of a terminal
          MaxFrames, MaxOutput          \* bounds: what a browser and a shell send

ASSUME PartsAssumption ==
    /\ None \notin Gets \cup Sizes \cup {Default} /\ \A summary \in SUBSET Lists : summary # None
    /\ {MaxFrames, MaxOutput} \subseteq Nat

VARIABLES active,
          value, fresh, refresh, closed, pc, channel, results, cancelled,
          kind, client, conn, shell, session, relay, reader, queue, pushing, applied, last, frames, output

dashboardVars == <<value, fresh, refresh, closed, pc, channel, results, cancelled>>
terminalVars == <<kind, client, conn, shell, session, relay, reader, queue, pushing, applied, last, frames, output>>

Dashboards == INSTANCE Dashboard

Terminals == INSTANCE Terminal

MCInit ==
    /\ active \in Parts
    /\ Init /\ Dashboards!Init /\ Terminals!Init
    /\ active # "terminal" => kind = "pod"

MCNext ==
    \/ active = "platform" /\ Next /\ UNCHANGED <<active, dashboardVars, terminalVars>>
    \/ active = "dashboard" /\ Dashboards!Next /\ UNCHANGED <<active, vars, terminalVars>>
    \/ active = "terminal" /\ Terminals!Next /\ UNCHANGED <<active, vars, dashboardVars>>

\* The fairness each module states for its own steps.
MCSpec ==
    /\ MCInit /\ [][MCNext]_<<active, vars, dashboardVars, terminalVars>>
    /\ \A t \in Thread : WF_vars(active = "platform" /\ Running(t))
    /\ WF_vars(active = "platform" /\ ReadLatest(Task))
    /\ WF_vars(active = "platform" /\ StopOldPod) /\ WF_vars(active = "platform" /\ StartPod)
    /\ \A r \in Release : WF_vars(active = "platform" /\ Age(r))
    /\ \A g \in Gets : WF_dashboardVars(active = "dashboard" /\ Dashboards!Step(g))
    /\ WF_terminalVars(active = "terminal" /\ Terminals!ReaderStep)
    /\ WF_terminalVars(active = "terminal" /\ Terminals!Relay)

\* Bound: one call that fails or one crash; the replacement of the platform's pod, which
\* ends its process as well, comes on top of either.
OneTrouble == used.faults + used.crashes <= 1

-----------------------------------------------------------------------------
\* No goroutine waits for ever: every Get of the dashboard returns, behind a refresh
\* that fails as well (GetReturns), and the relay and the reader of a terminal end
\* when its browser or its shell does (TerminalEnds).
WaitsEnd == Dashboards!GetReturns /\ Terminals!TerminalEnds

\* What is shared keeps its users apart: one refresh at a time (OneRefresh), a request
\* for the dashboard fails for no other's sake (FailsAlone), and the one place of the
\* size queue holds what the browser asked for last (LatestSize).
SharedApart ==
    /\ Dashboards!TypeOK /\ Dashboards!OneRefresh /\ Dashboards!FailsAlone
    /\ Terminals!TypeOK /\ Terminals!LatestSize
=============================================================================
