------------------------------- MODULE TestApp -------------------------------
(***************************************************************************)
(* One pod of the testapp service (testapp/main.go, testapp/metrics.go):   *)
(* its handlers, its metrics and the way it drains, next to clients that   *)
(* reach it through the Service, the cluster that stops sending them, and  *)
(* Redis.                                                                  *)
(*                                                                         *)
(* A request that calls Redis fails if Redis is gone, if its timeout ends  *)
(* first or if its client gives up: an operation ends well or not, for     *)
(* whatever reason.  The Redis counter is left out.  Time is counted from  *)
(* the moment the process is told to stop; its two timers are on time.     *)
(***************************************************************************)
EXTENDS Naturals, FiniteSets

CONSTANTS Requests,          \* the requests of a behaviour
          None,              \* no request
          DrainDelay,        \* drainDelay
          ShutdownTimeout,   \* of shutdownCtx
          Propagation        \* how long a deleted pod may stay in the endpoints

ASSUME NoneAssumption == None \notin Requests /\ IsFiniteSet(Requests)
\* The premise of drainDelay: a pod leaves the endpoints before it ends.
ASSUME DelayAssumption == /\ DrainDelay \in Nat /\ ShutdownTimeout \in Nat
                          /\ Propagation \in Nat /\ Propagation < DrainDelay

VARIABLES
  cause,        \* what ended ctx: "none", "deletion", "signal" or "listen"
  since,        \* time since then
  routed,       \* the Service sends requests to this pod
  main,         \* the main goroutine: "serving", "draining", "stopping", "exited"
  stoppingAt,   \* when it called Shutdown
  ready,        \* s.ready
  listener,     \* "open", "failed" or "closed"
  st, path, ok, code,       \* of each request: its state, its path, how its Redis
                            \* operation ended, its status
  inflight, counted,        \* the gauge; the counter, by status
  redisUp,                  \* the gauge testapp_redis_up
  timedOut,                 \* history: Shutdown returned an error
  ender, setter, overlapped \* history: the request whose Redis operation ended last, the
                            \* one that set redisUp last, and those that were about to set
                            \* it when the former ended

requestVars == <<st, path, ok, code>>
metricVars  == <<inflight, counted, redisUp>>
gaugeVars   == <<ender, setter, overlapped>>
mainVars    == <<main, stoppingAt, ready, timedOut>>
vars == <<cause, since, routed, mainVars, listener, requestVars, metricVars, gaugeVars>>

Paths == {"work", "healthz", "other"}
Codes == {200, 503}
In(s) == {r \in Requests : st[r] = s}
Handling == In("begun") \union In("redis") \union In("pending") \union In("answered")

Init == /\ cause = "none" /\ since = 0 /\ routed = TRUE
        /\ main = "serving" /\ stoppingAt = 0 /\ ready = TRUE /\ timedOut = FALSE
        /\ listener = "open"
        /\ st = [r \in Requests |-> "unsent"] /\ path = [r \in Requests |-> "other"]
        /\ ok = [r \in Requests |-> FALSE] /\ code = [r \in Requests |-> 200]
        /\ inflight = 0 /\ counted = [c \in Codes |-> 0] /\ redisUp = TRUE
        /\ ender = None /\ setter = None /\ overlapped = {}

Become(r, s) == st' = [st EXCEPT ![r] = s]

-----------------------------------------------------------------------------
(* The cluster and its clients. *)

\* The pod is deleted, its container is told to stop, or the listener fails.
Stop(why) == /\ cause = "none" /\ main # "exited"
             /\ cause' = why
             /\ listener' = IF why = "listen" THEN "failed" ELSE listener
             /\ UNCHANGED <<since, routed, mainVars, requestVars, metricVars, gaugeVars>>

ListenFailsLate == /\ cause # "none" /\ listener = "open" /\ main # "exited"
                   /\ listener' = "failed"
                   /\ UNCHANGED <<cause, since, routed, mainVars, requestVars, metricVars, gaugeVars>>

\* The Service stops sending requests to a pod that is deleted or not ready, and
\* does again to one that is ready.
Unroute == /\ routed /\ routed' = FALSE
           /\ UNCHANGED <<cause, since, mainVars, listener, requestVars, metricVars, gaugeVars>>
Readmit == /\ ~routed /\ cause = "none" /\ routed' = TRUE
           /\ UNCHANGED <<cause, since, mainVars, listener, requestVars, metricVars, gaugeVars>>

Arrive(r) == /\ st[r] = "unsent" /\ routed
             /\ \E p \in Paths : path' = [path EXCEPT ![r] = p]
             /\ IF listener = "open"
                  THEN Become(r, "begun") /\ inflight' = inflight + 1
                  ELSE Become(r, "refused") /\ UNCHANGED inflight
             /\ UNCHANGED <<cause, since, routed, mainVars, listener, ok, code, counted, redisUp, gaugeVars>>

\* Nothing that is due is late: the main goroutine, its timers, the endpoints.
Due == \/ main = "serving"
       \/ main = "draining" /\ since >= DrainDelay
       \/ main = "stopping" /\ since >= stoppingAt + ShutdownTimeout
       \/ cause = "deletion" /\ routed /\ since >= Propagation

Tick == /\ cause # "none" /\ main # "exited" /\ ~Due
        /\ since' = since + 1
        /\ UNCHANGED <<cause, routed, mainVars, listener, requestVars, metricVars, gaugeVars>>

-----------------------------------------------------------------------------
(* The handlers. *)

\* s.ready is read by healthz only; work always calls Redis.
CallsRedis(r) == path[r] = "work" \/ (path[r] = "healthz" /\ ready)

Handle(r) == /\ st[r] = "begun"
             /\ IF CallsRedis(r)
                  THEN Become(r, "redis") /\ UNCHANGED code
                  ELSE /\ Become(r, "answered")
                       /\ code' = [code EXCEPT ![r] = IF path[r] = "healthz" THEN 503 ELSE 200]
             /\ UNCHANGED <<cause, since, routed, mainVars, listener, path, ok, metricVars, gaugeVars>>

\* Ping or Incr returns.
RedisEnds(r) == /\ st[r] = "redis"
                /\ Become(r, "pending")
                /\ \E b \in BOOLEAN : ok' = [ok EXCEPT ![r] = b]
                /\ ender' = r /\ overlapped' = In("pending")
                /\ UNCHANGED <<cause, since, routed, mainVars, listener, path, code, metricVars, setter>>

\* Mutated: the error path returns before the gauge is set.
Answer_KeepsGauge(r) ==
  /\ st[r] = "pending"
  /\ Become(r, "answered")
  /\ code' = [code EXCEPT ![r] = IF ok[r] THEN 200 ELSE 503]
  /\ IF ok[r] THEN redisUp' = TRUE /\ setter' = r ELSE UNCHANGED <<redisUp, setter>>
  /\ UNCHANGED <<cause, since, routed, mainVars, listener, path, ok, inflight, counted, ender, overlapped>>

\* setRedisUp, then writeJSON.
Answer(r) == /\ st[r] = "pending"
             /\ Become(r, "answered")
             /\ redisUp' = ok[r] /\ setter' = r
             /\ code' = [code EXCEPT ![r] = IF ok[r] THEN 200 ELSE 503]
             /\ UNCHANGED <<cause, since, routed, mainVars, listener, path, ok, inflight, counted, ender, overlapped>>

\* Mutated: the recorder does not see WriteHeader and keeps its first status.
Count_FirstStatus(r) ==
  /\ st[r] = "answered"
  /\ Become(r, "done")
  /\ counted' = [counted EXCEPT ![200] = @ + 1]
  /\ inflight' = inflight - 1
  /\ UNCHANGED <<cause, since, routed, mainVars, listener, path, ok, code, redisUp, gaugeVars>>

\* The handler has returned to instrument, which counts the request.
Count(r) == /\ st[r] = "answered"
            /\ Become(r, "done")
            /\ counted' = [counted EXCEPT ![code[r]] = @ + 1]
            /\ inflight' = inflight - 1
            /\ UNCHANGED <<cause, since, routed, mainVars, listener, path, ok, code, redisUp, gaugeVars>>

-----------------------------------------------------------------------------
(* The main goroutine. *)

\* ctx.Done(): not ready from now on.
BeginDrain == /\ main = "serving" /\ cause # "none"
              /\ main' = "draining" /\ ready' = FALSE
              /\ UNCHANGED <<cause, since, routed, stoppingAt, timedOut, listener, requestVars, metricVars, gaugeVars>>

\* Mutated: the process does not wait before it stops listening.
BeginShutdown_NoDrain ==
  /\ main = "draining"
  /\ main' = "stopping" /\ stoppingAt' = since
  /\ listener' = IF listener = "open" THEN "closed" ELSE listener
  /\ UNCHANGED <<cause, since, routed, ready, timedOut, requestVars, metricVars, gaugeVars>>

\* The sleep is over: Shutdown closes the listener and waits for the handlers.
BeginShutdown == /\ main = "draining" /\ since >= DrainDelay
                 /\ main' = "stopping" /\ stoppingAt' = since
                 /\ listener' = IF listener = "open" THEN "closed" ELSE listener
                 /\ UNCHANGED <<cause, since, routed, ready, timedOut, requestVars, metricVars, gaugeVars>>

\* The process ends, whatever its other goroutines do.
Exit == /\ main' = "exited"
        /\ st' = [r \in Requests |-> IF r \in Handling THEN "cut" ELSE st[r]]
        /\ UNCHANGED <<cause, since, routed, stoppingAt, ready, listener, path, ok, code, metricVars, gaugeVars>>

\* Mutated: main does not wait for the handlers.
ShutdownDone_NoWait == main = "stopping" /\ Exit /\ UNCHANGED timedOut

ShutdownDone == /\ main = "stopping" /\ Handling = {}
                /\ Exit /\ UNCHANGED timedOut

\* Mutated: Shutdown is given a context without a deadline.
ShutdownTimesOut_Never == FALSE /\ Exit /\ timedOut' = TRUE

ShutdownTimesOut == /\ main = "stopping" /\ Handling # {}
                    /\ since >= stoppingAt + ShutdownTimeout
                    /\ Exit /\ timedOut' = TRUE

Main == BeginDrain \/ BeginShutdown \/ ShutdownDone \/ ShutdownTimesOut

-----------------------------------------------------------------------------
Over == main = "exited" /\ UNCHANGED vars

Handler(r) == Handle(r) \/ RedisEnds(r) \/ Answer(r) \/ Count(r)

Next == \/ \E why \in {"deletion", "signal", "listen"} : Stop(why)
        \/ ListenFailsLate \/ Unroute \/ Readmit \/ Tick
        \/ \E r \in Requests : Arrive(r) \/ Handler(r)
        \/ Main
        \/ Over

Spec == Init /\ [][Next]_vars

(* Time passes, the cluster removes a deleted pod from the endpoints in time, and *)
(* the main goroutine runs when it can.  Nothing is assumed of the handlers: a    *)
(* Redis operation may hang.                                                      *)
Fairness == WF_vars(Tick) /\ WF_vars(Unroute) /\ WF_vars(Main)

FairSpec == Spec /\ Fairness

-----------------------------------------------------------------------------
(* Properties. *)

\* Every variable stays in its range; the process is ready only while it serves; the
\* gauge is the number of handlers, and every request handled is counted once, under
\* the status its client saw.
TypeOK == /\ cause \in {"none", "deletion", "signal", "listen"}
          /\ since \in 0 .. DrainDelay + ShutdownTimeout
          /\ stoppingAt \in 0 .. DrainDelay
          /\ routed \in BOOLEAN /\ ready \in BOOLEAN /\ timedOut \in BOOLEAN /\ redisUp \in BOOLEAN
          /\ main \in {"serving", "draining", "stopping", "exited"}
          /\ main # "serving" => cause # "none"
          /\ ready => main = "serving"
          /\ listener \in {"open", "failed", "closed"}
          /\ st \in [Requests -> {"unsent", "refused", "begun", "redis", "pending", "answered", "done", "cut"}]
          /\ path \in [Requests -> Paths] /\ ok \in [Requests -> BOOLEAN] /\ code \in [Requests -> Codes]
          /\ main # "exited" => inflight = Cardinality(Handling)
          /\ counted = [c \in Codes |-> Cardinality({r \in In("done") : code[r] = c})]
          /\ ender \in Requests \union {None} /\ setter \in Requests \union {None}
          /\ overlapped \subseteq Requests

\* Deleting a pod refuses no connection: it leaves the endpoints while it still
\* listens.  Without drainDelay, "pod deletion would briefly produce
\* connection-refused errors".
DeletionRefusesNobody == cause = "deletion" /\ listener # "failed" => In("refused") = {}

\* The process ends under a request only if Shutdown gave up on its handler.
OnlyATimeoutCuts == In("cut") # {} => timedOut

\* When nobody is about to set it, testapp_redis_up tells how the last Redis
\* operation ended, or how one ended that was about to set it at that moment.
GaugeIsRecent == In("pending") = {} /\ ender # None /\ main # "exited"
                   => /\ setter \in {ender} \union overlapped
                      /\ redisUp = ok[setter]

\* A process that is told to stop exits, even if a handler hangs.
StoppedPodExits == cause # "none" ~> main = "exited"
=============================================================================
