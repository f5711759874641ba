----------------------------- MODULE Dashboard -----------------------------
(***************************************************************************)
(* The cached cluster summary of the home page: DashboardSummaryService in *)
(* api/infrastructure/kubernetes/dashboard_summary.go.  Bursts of requests *)
(* share one refresh: the first that finds no fresh value opens a channel, *)
(* lists the cluster with its own request context, and closes the channel; *)
(* the others wait for the closing, or for their own context to end, and   *)
(* look again.  Each member of Gets is one request.                        *)
(***************************************************************************)
EXTENDS FiniteSets

CONSTANTS
    Gets,       \* the requests
    Lists,      \* the lists a refresh asks the API server for
    None

VARIABLES
    value,      \* the cached summary: the lists that answered, or None
    fresh,      \* the cached summary is younger than ttl
    refresh,    \* the open channel, named by the request that made it, or None
    closed,     \* channels closed so far
    pc,         \* request -> where its Get stands
    channel,    \* request -> the channel it waits for
    results,    \* request -> the lists its refresh got an answer of: list -> ok
    cancelled   \* requests whose context has ended

vars == <<value, fresh, refresh, closed, pc, channel, results, cancelled>>

Pcs == {"new", "look", "wait", "collect", "finish", "answered", "failed"}

TypeOK ==
    /\ value \in (SUBSET Lists) \cup {None}
    /\ fresh \in BOOLEAN
    /\ refresh \in Gets \cup {None}
    /\ closed \subseteq Gets
    /\ pc \in [Gets -> Pcs]
    /\ channel \in [Gets -> Gets \cup {None}]
    /\ \A g \in Gets : \A l \in DOMAIN results[g] : l \in Lists /\ results[g][l] \in BOOLEAN
    /\ cancelled \subseteq Gets

Init ==
    /\ value = None /\ fresh = FALSE /\ refresh = None /\ closed = {}
    /\ pc = [g \in Gets |-> "new"] /\ channel = [g \in Gets |-> None]
    /\ results = [g \in Gets |-> [l \in {} |-> TRUE]]
    /\ cancelled = {}

\* A browser asks for the dashboard.
Get(g) ==
    /\ pc[g] = "new"
    /\ pc' = [pc EXCEPT ![g] = "look"]
    /\ UNCHANGED <<value, fresh, refresh, closed, channel, results, cancelled>>

\* Under the mutex: a fresh value is returned as a copy.
cloneSummary(g) ==
    /\ pc[g] = "look" /\ value # None /\ fresh
    /\ pc' = [pc EXCEPT ![g] = "answered"]
    /\ UNCHANGED <<value, fresh, refresh, closed, channel, results, cancelled>>

\* Under the mutex: somebody is refreshing, so wait for the channel.
Follow(g) ==
    /\ pc[g] = "look" /\ ~(value # None /\ fresh) /\ refresh # None
    /\ pc' = [pc EXCEPT ![g] = "wait"] /\ channel' = [channel EXCEPT ![g] = refresh]
    /\ UNCHANGED <<value, fresh, refresh, closed, results, cancelled>>

\* Under the mutex: nobody is, so open a channel and refresh.
LeadUnchecked(g) ==
    /\ pc[g] = "look" /\ ~(value # None /\ fresh)
    /\ refresh' = g
    /\ pc' = [pc EXCEPT ![g] = "collect"]
    /\ UNCHANGED <<value, fresh, closed, channel, results, cancelled>>
Lead(g) ==
    /\ pc[g] = "look" /\ ~(value # None /\ fresh) /\ refresh = None
    /\ refresh' = g
    /\ pc' = [pc EXCEPT ![g] = "collect"]
    /\ UNCHANGED <<value, fresh, closed, channel, results, cancelled>>

\* The select of a waiting request: the channel is closed and it looks again,
\* or its own context has ended and it answers with that error.
Woken(g) ==
    /\ pc[g] = "wait"
    /\ \/ channel[g] \in closed /\ pc' = [pc EXCEPT ![g] = "look"]
       \/ g \in cancelled /\ pc' = [pc EXCEPT ![g] = "failed"]
    /\ channel' = [channel EXCEPT ![g] = None]
    /\ UNCHANGED <<value, fresh, refresh, closed, results, cancelled>>

\* Each list runs in a goroutine of its own and sends its answer or its error;
\* under an ended context only errors are to be expected.
Collect(g, l) ==
    /\ pc[g] = "collect" /\ l \in Lists \ DOMAIN results[g]
    /\ \E ok \in {TRUE, FALSE} :
         /\ ok => g \notin cancelled
         /\ results' = [results EXCEPT ![g] = [k \in DOMAIN @ \cup {l} |-> IF k = l THEN ok ELSE @[k]]]
    /\ pc' = IF DOMAIN results'[g] = Lists THEN [pc EXCEPT ![g] = "finish"] ELSE pc
    /\ UNCHANGED <<value, fresh, refresh, closed, channel, cancelled>>

\* refreshValue after the last list: an error only when the context has ended;
\* lists that failed are named in the summary, which counts as partial.
ContextEnded(g) == g \in cancelled
refreshValue(g) == IF ContextEnded(g) THEN None ELSE {l \in Lists : results[g][l]}

\* Under the mutex: keep a value, close the channel and forget it.
OpenOnError(g, summary) ==
    /\ IF summary = None THEN UNCHANGED <<closed, refresh>> ELSE closed' = closed \cup {g} /\ refresh' = None
Release(g, summary) ==
    /\ closed' = closed \cup {g}
    /\ refresh' = None

Finish(g) ==
    /\ pc[g] = "finish"
    /\ LET summary == refreshValue(g) IN
       /\ IF summary = None THEN UNCHANGED <<value, fresh>> ELSE value' = summary /\ fresh' = TRUE
       /\ Release(g, summary)
       /\ pc' = [pc EXCEPT ![g] = IF summary = None THEN "failed" ELSE "answered"]
    /\ UNCHANGED <<channel, results, cancelled>>

\* Time passes: the value outlives its ttl.
Expire ==
    /\ fresh /\ fresh' = FALSE
    /\ UNCHANGED <<value, refresh, closed, pc, channel, results, cancelled>>

\* A browser goes away.
Leave(g) ==
    /\ pc[g] \in {"look", "wait", "collect", "finish"} /\ g \notin cancelled
    /\ cancelled' = cancelled \cup {g}
    /\ UNCHANGED <<value, fresh, refresh, closed, pc, channel, results>>

\* What the goroutine of one request, and those of its lists, do.
Step(g) ==
    \/ cloneSummary(g) \/ Follow(g) \/ Lead(g) \/ Woken(g) \/ Finish(g)
    \/ \E l \in Lists : Collect(g, l)

Next == Expire \/ \E g \in Gets : Get(g) \/ Step(g) \/ Leave(g)

\* Goroutines are scheduled and API calls return.
Fairness == \A g \in Gets : WF_vars(Step(g))
Spec == Init /\ [][Next]_vars /\ Fairness

-----------------------------------------------------------------------------
\* One refresh at a time, and it can be found: the open channel belongs to a
\* request that is refreshing, no other request is, and whoever waits does so
\* for that channel or for one that is closed already.
OneRefresh ==
    /\ \A g \in Gets : pc[g] \in {"collect", "finish"} <=> refresh = g
    /\ \A g \in Gets : pc[g] = "wait" => channel[g] = refresh \/ channel[g] \in closed

\* The request whose context the shared refresh runs under may go away at any
\* moment; no other request fails for it, nor for a list that failed.
FailsAlone == \A g \in Gets : pc[g] = "failed" => g \in cancelled

\* Every Get returns: a request that looks at the cache is not left waiting
\* behind a refresh that failed.
GetReturns == \A g \in Gets : pc[g] = "look" ~> pc[g] \in {"answered", "failed"}
=============================================================================
