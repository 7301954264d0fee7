----------------------------- MODULE ServerView ------------------------------
(***************************************************************************)
(* prom.CollectServerView (internal/prom/prom.go) and its call in          *)
(* cmd/harness/run.go: what Prometheus, which scrapes every testapp pod    *)
(* once per Interval, lets the harness say of a fault window that ended    *)
(* Settle ago.                                                             *)
(*                                                                         *)
(* One unit of time is a second.  A pod's gauge is testapp_redis_up: 1 at  *)
(* its start, then the outcome of its last Redis operation.  A scrape of a *)
(* pod that runs succeeds.  The values of the two queries of counters,     *)
(* whose extrapolation is Prometheus's own, decide nothing here; that they *)
(* may fail is modelled.  No name is one of TestApp's: TestAppProofs       *)
(* extends both.                                                           *)
(***************************************************************************)
EXTENDS Integers, FiniteSets, FiniteSetsExt

CONSTANTS Pods,
          Interval,   \* scrape_interval
          Windows,    \* the values of exp.Phases.Fault(), which Validate bounds below
          FaultEnd,   \* when the window ends
          Settle      \* from then to the queries: the end of the observation, promSettleDelay

ASSUME ViewAssumption == /\ IsFiniteSet(Pods)
                         /\ Interval \in Nat \ {0} /\ FaultEnd \in Nat /\ Settle \in Nat
                         /\ Windows \subseteq 1 .. FaultEnd

VARIABLES
  now, nextScrape,    \* the clock; when Prometheus scrapes each pod next, 0 if it does not run
  window,             \* the duration handed to CollectServerView
  gauge,              \* testapp_redis_up of each pod
  series,             \* what was scraped: [pod, at, redisUp]
  pc,                 \* the query to make next, "report" or "unavailable"
  view,               \* ServerView: targetsUp, minRedisUp
  sawRedisGone,       \* history: the pods that saw a Redis operation fail before FaultEnd
  steady,             \* history: the pods that run throughout the window
  darkFor             \* history: for how long of the window, up to Interval, each gauge was 0

queryVars   == <<pc, view>>
historyVars == <<sawRedisGone, steady, darkFor>>
viewVars    == <<now, nextScrape, window, gauge, series, queryVars, historyVars>>

Up          == {p \in Pods : nextScrape[p] # 0}
WindowStart == FaultEnd - window

ViewInit == /\ now = 0 /\ window \in Windows
            /\ nextScrape \in [Pods -> 0 .. Interval] /\ gauge = [p \in Pods |-> 1]
            /\ series = {}
            /\ pc = "settle" /\ view = [targetsUp |-> 0, minRedisUp |-> 0]
            /\ sawRedisGone = {} /\ steady = Up /\ darkFor = [p \in Pods |-> 0]

-----------------------------------------------------------------------------
(* The cluster, and Prometheus. *)

ScrapedAt(t) == {p \in Pods : nextScrape[p] = t}

\* A gauge that was 0 for an Interval of the window stays on record.
Darken(t) == [p \in Pods |-> IF darkFor[p] = Interval \/ t <= WindowStart \/ t > FaultEnd
                               THEN darkFor[p]
                               ELSE IF gauge[p] = 0 THEN darkFor[p] + 1 ELSE 0]

TimePasses ==
  /\ now < FaultEnd + Settle
  /\ now' = now + 1
  /\ series' = series \union {[pod |-> p, at |-> now', redisUp |-> gauge[p]] : p \in ScrapedAt(now')}
  /\ nextScrape' = [p \in Pods |-> IF p \in ScrapedAt(now') THEN now' + Interval ELSE nextScrape[p]]
  /\ darkFor' = Darken(now')
  /\ UNCHANGED <<window, gauge, queryVars, sawRedisGone, steady>>

\* Its gauge is 0 no longer, unless it already was for long enough.
Relight(p) == darkFor' = [darkFor EXCEPT ![p] = IF @ = Interval THEN @ ELSE 0]

PodStops(p) == /\ p \in Up
               /\ nextScrape' = [nextScrape EXCEPT ![p] = 0] /\ gauge' = [gauge EXCEPT ![p] = 1]
               /\ steady' = IF now < FaultEnd THEN steady \ {p} ELSE steady
               /\ Relight(p)
               /\ UNCHANGED <<now, window, series, queryVars, sawRedisGone>>

\* A pod that starts is a new target, scraped from any second of the interval on.
PodStarts(p) == /\ p \notin Up
                /\ \E t \in now + 1 .. now + Interval : nextScrape' = [nextScrape EXCEPT ![p] = t]
                /\ steady' = IF now <= WindowStart THEN steady \union {p} ELSE steady
                /\ UNCHANGED <<now, window, gauge, series, queryVars, sawRedisGone, darkFor>>

\* A request or a readiness check ends in setRedisUp.
Operate(p, ok) ==
  /\ p \in Up
  /\ gauge' = [gauge EXCEPT ![p] = IF ok THEN 1 ELSE 0]
  /\ sawRedisGone' = IF ~ok /\ now < FaultEnd THEN sawRedisGone \union {p} ELSE sawRedisGone
  /\ IF ok THEN Relight(p) ELSE UNCHANGED darkFor
  /\ UNCHANGED <<now, nextScrape, window, series, queryVars, steady>>

Cluster == \/ TimePasses
           \/ \E p \in Pods : PodStops(p) \/ PodStarts(p) \/ \E ok \in BOOLEAN : Operate(p, ok)

-----------------------------------------------------------------------------
(* The harness.  All queries are evaluated at FaultEnd, however late. *)

\* Mutated: as late as the queries are made.
InRange_Now == {s \in series : now - window < s.at /\ s.at <= now}

\* The pods whose last scrape before FaultEnd is not stale, all scrapes of the range.
Latest  == {s.pod : s \in {r \in series : FaultEnd - Interval < r.at /\ r.at <= FaultEnd}}
InRange == {s \in series : WindowStart < s.at /\ s.at <= FaultEnd}

\* scalar: an empty result is 0.
Scalar(S, value) == IF S = {} THEN 0 ELSE value

Cancelled == pc' = "unavailable" /\ UNCHANGED view

Others == UNCHANGED <<now, nextScrape, window, gauge, series, historyVars>>

SettleDelay == /\ pc = "settle"
               /\ \/ now = FaultEnd + Settle /\ pc' = "up" /\ UNCHANGED view
                  \/ Cancelled
               /\ Others

\* The first query that fails ends the collection, and the view is dropped.
Query(from, to, v) == /\ pc = from
                      /\ \/ pc' = to /\ view' = v
                         \/ Cancelled
                      /\ Others

TargetsUp  == Scalar(Latest, Cardinality(Latest))
MinRedisUp == Scalar(InRange, Min({s.redisUp : s \in InRange}))

CollectServerView == \/ Query("up", "served", [view EXCEPT !.targetsUp = TargetsUp])
                     \/ Query("served", "errors", view)
                     \/ Query("errors", "redis", view)
                     \/ Query("redis", "report", [view EXCEPT !.minRedisUp = MinRedisUp])

Reported == pc \in {"report", "unavailable"} /\ UNCHANGED viewVars

ViewNext == \/ pc = "settle" /\ Cluster
            \/ SettleDelay \/ CollectServerView \/ Reported

ViewSpec == ViewInit /\ [][ViewNext]_viewVars

-----------------------------------------------------------------------------
\* A reported minimum of 0 is a Redis that went away: "0 means at least one pod saw
\* its Redis dependency go away (the partition)", prom.go:52.
ZeroMeansRedisWentAway == pc = "report" /\ view.minRedisUp = 0 => sawRedisGone # {}

\* What does hold of a minimum of 0: a pod saw Redis go away before the window had ended,
\* if anything was scraped in the window, as it was if the window is no shorter than the
\* interval and a pod runs throughout.
ZeroIsObserved ==
  view.minRedisUp = 0 /\ (InRange # {} \/ (window >= Interval /\ steady # {})) => sawRedisGone # {}

\* A gauge that stays 0 for an interval of the window is reported, even if Redis is back
\* and the pod gone when the queries are made.
OutageIsSeen == (\E p \in Pods : darkFor[p] = Interval) => view.minRedisUp = 0

\* A pod that runs throughout a window no shorter than the interval is counted as up.
SteadyPodsAreUp == window >= Interval => Cardinality(steady) <= view.targetsUp

\* The view that is reported was observed in the window, not when it is collected.
ServerViewIsObserved == pc = "report" => ZeroIsObserved /\ OutageIsSeen /\ SteadyPodsAreUp
=============================================================================
