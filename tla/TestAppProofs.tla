---------------------------- MODULE TestAppProofs ----------------------------
(***************************************************************************)
(* Proofs about TestApp, for any number of requests and any delays, and    *)
(* about ServerView, for any number of pods and any interval and window.   *)
(***************************************************************************)
EXTENDS TestApp, ServerView, TLAPS, FiniteSetTheorems

States == {"unsent", "refused", "begun", "redis", "pending", "answered", "done", "cut"}

\* How far the main goroutine is, and what its timers and the endpoints allow.
MainInv ==
  /\ cause \in {"none", "deletion", "signal", "listen"}
  /\ main \in {"serving", "draining", "stopping", "exited"}
  /\ listener \in {"open", "failed", "closed"}
  /\ routed \in BOOLEAN
  /\ st \in [Requests -> States]
  /\ since \in Nat
  /\ main = "serving" => listener # "closed" /\ since = 0
  /\ main = "draining" => listener # "closed"
  /\ cause = "none" => main = "serving" /\ listener = "open"
  /\ listener = "closed" => since >= DrainDelay
  /\ cause = "deletion" /\ routed => since <= Propagation

LEMMA InitMain == Init => MainInv
BY DelayAssumption DEF Init, MainInv, States

\* No step of a handler changes anything but its request and the metrics.
LEMMA HandlerFrame ==
  ASSUME NEW r \in Requests, MainInv, Handler(r)
  PROVE  /\ UNCHANGED <<cause, since, routed, mainVars, listener>>
         /\ \E s \in {"redis", "pending", "answered", "done"} : Become(r, s)
<1>1. CASE Handle(r)
  BY <1>1 DEF Handle, mainVars
<1>2. CASE RedisEnds(r)
  BY <1>2 DEF RedisEnds, mainVars
<1>3. CASE Answer(r)
  BY <1>3 DEF Answer, mainVars
<1>4. CASE Count(r)
  BY <1>4 DEF Count, mainVars
<1> QED BY <1>1, <1>2, <1>3, <1>4 DEF Handler

LEMMA StepMain == MainInv /\ [Next]_vars => MainInv'
<1> SUFFICES ASSUME MainInv, [Next]_vars PROVE MainInv'
  OBVIOUS
<1> USE DelayAssumption
<1>1. ASSUME NEW why \in {"deletion", "signal", "listen"}, Stop(why) PROVE MainInv'
  BY <1>1 DEF MainInv, Stop, mainVars, requestVars
<1>2. CASE ListenFailsLate
  BY <1>2 DEF MainInv, ListenFailsLate, mainVars, requestVars
<1>3. CASE Unroute \/ Readmit
  BY <1>3 DEF MainInv, Unroute, Readmit, mainVars, requestVars
<1>4. CASE Tick
  BY <1>4 DEF MainInv, Tick, Due, mainVars, requestVars
<1>5. ASSUME NEW r \in Requests, Arrive(r) PROVE MainInv'
  BY <1>5 DEF MainInv, States, Arrive, Become, mainVars
<1>6. ASSUME NEW r \in Requests, Handler(r) PROVE MainInv'
  BY <1>6, HandlerFrame DEF MainInv, States, Become, mainVars
<1>7. CASE BeginDrain
  BY <1>7 DEF MainInv, BeginDrain, requestVars
<1>8. CASE BeginShutdown
  BY <1>8 DEF MainInv, BeginShutdown, requestVars
<1>9. CASE ShutdownDone \/ ShutdownTimesOut
  <2>1. main = "stopping" /\ Exit
    BY <1>9 DEF ShutdownDone, ShutdownTimesOut
  <2>2. st' \in [Requests -> States]
    BY <2>1 DEF Exit, MainInv, States
  <2> QED BY <2>1, <2>2 DEF MainInv, Exit
<1>10. CASE Over \/ UNCHANGED vars
  BY <1>10 DEF MainInv, Over, vars, mainVars, requestVars
<1> QED BY <1>1, <1>2, <1>3, <1>4, <1>5, <1>6, <1>7, <1>8, <1>9, <1>10 DEF Next, Main

LEMMA MainAlways == Spec => []MainInv
<1> QED BY InitMain, StepMain, PTL DEF Spec

-----------------------------------------------------------------------------
\* Deleting a pod refuses no connection, whatever the number of requests, as long as
\* it leaves the endpoints within drainDelay.
THEOREM NobodyIsRefused == Spec => []DeletionRefusesNobody
<1> DEFINE R == cause = "none" \/ (cause = "deletion" /\ listener # "failed") => In("refused") = {}
<1>1. Init => R
  BY DEF Init, In
<1>2. MainInv /\ R /\ [Next]_vars => R'
  <2> SUFFICES ASSUME MainInv, R, [Next]_vars PROVE R'
    OBVIOUS
  <2> USE DelayAssumption
  <2>1. ASSUME NEW why \in {"deletion", "signal", "listen"}, Stop(why) PROVE R'
    BY <2>1 DEF MainInv, Stop, requestVars, In
  <2>2. CASE ListenFailsLate
    BY <2>2 DEF ListenFailsLate
  <2>3. CASE Unroute \/ Readmit \/ Tick
    BY <2>3 DEF Unroute, Readmit, Tick, requestVars, In
  <2>4. ASSUME NEW r \in Requests, Arrive(r) PROVE R'
    <3>1. CASE listener = "open"
      BY <2>4, <3>1 DEF MainInv, Arrive, Become, In
    <3>2. CASE listener # "open"
      BY <2>4, <3>2 DEF MainInv, Arrive
    <3> QED BY <3>1, <3>2
  <2>5. ASSUME NEW r \in Requests, Handler(r) PROVE R'
    BY <2>5, HandlerFrame DEF MainInv, Become, In
  <2>6. CASE BeginDrain \/ BeginShutdown
    BY <2>6 DEF BeginDrain, BeginShutdown, requestVars, In
  <2>7. CASE ShutdownDone \/ ShutdownTimesOut
    <3>1. Exit
      BY <2>7 DEF ShutdownDone, ShutdownTimesOut
    <3>2. In("refused")' \subseteq In("refused")
      BY <3>1 DEF Exit, In
    <3> QED BY <3>1, <3>2 DEF Exit
  <2>8. CASE Over \/ UNCHANGED vars
    BY <2>8 DEF Over, vars, requestVars, In
  <2> QED BY <2>1, <2>2, <2>3, <2>4, <2>5, <2>6, <2>7, <2>8 DEF Next, Main
<1>3. R => DeletionRefusesNobody
  BY DEF DeletionRefusesNobody
<1> QED BY <1>1, <1>2, <1>3, MainAlways, PTL DEF Spec

-----------------------------------------------------------------------------
\* The process ends under a request only if Shutdown gave up on its handler.
THEOREM NothingElseCuts == Spec => []OnlyATimeoutCuts
<1>1. Init => OnlyATimeoutCuts
  BY DEF Init, In, OnlyATimeoutCuts
<1>2. MainInv /\ OnlyATimeoutCuts /\ [Next]_vars => OnlyATimeoutCuts'
  <2> SUFFICES ASSUME MainInv, OnlyATimeoutCuts, [Next]_vars PROVE OnlyATimeoutCuts'
    OBVIOUS
  <2>1. ASSUME NEW why \in {"deletion", "signal", "listen"}, Stop(why) PROVE OnlyATimeoutCuts'
    BY <2>1 DEF Stop, requestVars, mainVars, In, OnlyATimeoutCuts
  <2>2. CASE ListenFailsLate \/ Unroute \/ Readmit \/ Tick
    BY <2>2 DEF ListenFailsLate, Unroute, Readmit, Tick, requestVars, mainVars, In, OnlyATimeoutCuts
  <2>3. ASSUME NEW r \in Requests, Arrive(r) PROVE OnlyATimeoutCuts'
    BY <2>3 DEF MainInv, Arrive, Become, mainVars, In, OnlyATimeoutCuts
  <2>4. ASSUME NEW r \in Requests, Handler(r) PROVE OnlyATimeoutCuts'
    BY <2>4, HandlerFrame DEF MainInv, Become, mainVars, In, OnlyATimeoutCuts
  <2>5. CASE BeginDrain \/ BeginShutdown
    BY <2>5 DEF BeginDrain, BeginShutdown, requestVars, In, OnlyATimeoutCuts
  <2>6. CASE ShutdownDone
    BY <2>6 DEF ShutdownDone, Exit, In, OnlyATimeoutCuts
  <2>7. CASE ShutdownTimesOut
    BY <2>7 DEF ShutdownTimesOut, OnlyATimeoutCuts
  <2>8. CASE Over \/ UNCHANGED vars
    BY <2>8 DEF Over, vars, requestVars, mainVars, In, OnlyATimeoutCuts
  <2> QED BY <2>1, <2>2, <2>3, <2>4, <2>5, <2>6, <2>7, <2>8 DEF Next, Main
<1> QED BY <1>1, <1>2, MainAlways, PTL DEF Spec

-----------------------------------------------------------------------------
(***************************************************************************)
(* The type: ranges, the clock, the gauge and the counter.                 *)
(***************************************************************************)
FlagsOK == /\ ready \in BOOLEAN /\ timedOut \in BOOLEAN /\ redisUp \in BOOLEAN
           /\ path \in [Requests -> Paths] /\ ok \in [Requests -> BOOLEAN]
           /\ code \in [Requests -> Codes]
           /\ ready => main = "serving"
           /\ main # "serving" => cause # "none"

HistoryOK == /\ ender \in Requests \union {None} /\ setter \in Requests \union {None}
             /\ overlapped \subseteq Requests

\* The drain ends on time, and so does Shutdown.
ClockInv ==
  /\ stoppingAt \in {0, DrainDelay}
  /\ main \in {"serving", "draining"} => since <= DrainDelay
  /\ main = "stopping" => stoppingAt = DrainDelay
  /\ since <= DrainDelay + ShutdownTimeout

Done(c) == {r \in In("done") : code[r] = c}

CountersInv ==
  /\ main # "exited" => inflight = Cardinality(Handling)
  /\ counted = [c \in Codes |-> Cardinality(Done(c))]
  /\ main \in {"stopping", "exited"} => listener # "open"

LEMMA StepFlags == MainInv /\ FlagsOK /\ [Next]_vars => FlagsOK'
<1> SUFFICES ASSUME MainInv, FlagsOK, [Next]_vars PROVE FlagsOK'
  OBVIOUS
<1> USE DEF FlagsOK, requestVars, metricVars, mainVars
<1>1. ASSUME NEW why \in {"deletion", "signal", "listen"}, Stop(why) PROVE FlagsOK'
  BY <1>1 DEF Stop
<1>2. CASE ListenFailsLate \/ Unroute \/ Readmit \/ Tick
  BY <1>2 DEF ListenFailsLate, Unroute, Readmit, Tick
<1>3. ASSUME NEW r \in Requests, Arrive(r) PROVE FlagsOK'
  BY <1>3 DEF Arrive
<1>4. ASSUME NEW r \in Requests, Handle(r) PROVE FlagsOK'
  BY <1>4 DEF Handle, Codes
<1>5. ASSUME NEW r \in Requests, RedisEnds(r) PROVE FlagsOK'
  BY <1>5 DEF RedisEnds
<1>6. ASSUME NEW r \in Requests, Answer(r) PROVE FlagsOK'
  BY <1>6 DEF Answer, Codes
<1>7. ASSUME NEW r \in Requests, Count(r) PROVE FlagsOK'
  BY <1>7 DEF Count
<1>8. CASE BeginDrain \/ BeginShutdown
  <2>1. ~ready' /\ cause' # "none" /\ timedOut' \in BOOLEAN
    BY <1>8 DEF BeginDrain, BeginShutdown
  <2> QED BY <1>8, <2>1 DEF BeginDrain, BeginShutdown
<1>9. CASE ShutdownDone \/ ShutdownTimesOut
  <2>1. main = "stopping" /\ Exit /\ timedOut' \in {timedOut, TRUE}
    BY <1>9 DEF ShutdownDone, ShutdownTimesOut
  <2>2. ~ready' /\ cause' # "none"
    BY <2>1 DEF Exit
  <2>3. timedOut' \in BOOLEAN
    BY <2>1
  <2> QED BY <2>1, <2>2, <2>3 DEF Exit
<1>10. CASE Over \/ UNCHANGED vars
  BY <1>10 DEF Over, vars
<1> QED BY <1>1, <1>2, <1>3, <1>4, <1>5, <1>6, <1>7, <1>8, <1>9, <1>10 DEF Next, Handler, Main

LEMMA StepHistory == HistoryOK /\ [Next]_vars => HistoryOK'
<1> SUFFICES ASSUME HistoryOK, [Next]_vars PROVE HistoryOK'
  OBVIOUS
<1> USE DEF HistoryOK, gaugeVars
<1>1. ASSUME NEW why \in {"deletion", "signal", "listen"}, Stop(why) PROVE HistoryOK'
  BY <1>1 DEF Stop
<1>2. CASE ListenFailsLate \/ Unroute \/ Readmit \/ Tick
  BY <1>2 DEF ListenFailsLate, Unroute, Readmit, Tick
<1>3. ASSUME NEW r \in Requests, Arrive(r) \/ Handle(r) \/ Count(r) PROVE HistoryOK'
  BY <1>3 DEF Arrive, Handle, Count
<1>4. ASSUME NEW r \in Requests, RedisEnds(r) PROVE HistoryOK'
  BY <1>4 DEF RedisEnds, In
<1>5. ASSUME NEW r \in Requests, Answer(r) PROVE HistoryOK'
  BY <1>5 DEF Answer
<1>6. CASE BeginDrain \/ BeginShutdown \/ ShutdownDone \/ ShutdownTimesOut
  BY <1>6 DEF BeginDrain, BeginShutdown, ShutdownDone, ShutdownTimesOut, Exit
<1>7. CASE Over \/ UNCHANGED vars
  BY <1>7 DEF Over, vars
<1> QED BY <1>1, <1>2, <1>3, <1>4, <1>5, <1>6, <1>7 DEF Next, Handler, Main

LEMMA StepClock == MainInv /\ ClockInv /\ [Next]_vars => ClockInv'
<1> SUFFICES ASSUME MainInv, ClockInv, [Next]_vars PROVE ClockInv'
  OBVIOUS
<1> USE DelayAssumption DEF MainInv, ClockInv, mainVars
<1>1. ASSUME NEW why \in {"deletion", "signal", "listen"}, Stop(why) PROVE ClockInv'
  BY <1>1 DEF Stop
<1>2. CASE ListenFailsLate \/ Unroute \/ Readmit
  BY <1>2 DEF ListenFailsLate, Unroute, Readmit
<1>3. CASE Tick
  BY <1>3 DEF Tick, Due
<1>4. ASSUME NEW r \in Requests, Arrive(r) PROVE ClockInv'
  BY <1>4 DEF Arrive
<1>5. ASSUME NEW r \in Requests, Handler(r) PROVE ClockInv'
  BY <1>5, HandlerFrame
<1>6. CASE BeginDrain
  BY <1>6 DEF BeginDrain
<1>7. CASE BeginShutdown
  BY <1>7 DEF BeginShutdown
<1>8. CASE ShutdownDone \/ ShutdownTimesOut
  BY <1>8 DEF ShutdownDone, ShutdownTimesOut, Exit
<1>9. CASE Over \/ UNCHANGED vars
  BY <1>9 DEF Over, vars
<1> QED BY <1>1, <1>2, <1>3, <1>4, <1>5, <1>6, <1>7, <1>8, <1>9 DEF Next, Main

\* Sets of requests are finite.
LEMMA RequestsFinite == ASSUME NEW S \in SUBSET Requests PROVE IsFiniteSet(S)
BY NoneAssumption, FS_Subset

LEMMA StepCounters == MainInv /\ FlagsOK /\ CountersInv /\ [Next]_vars => CountersInv'
<1> SUFFICES ASSUME MainInv, FlagsOK, CountersInv, [Next]_vars PROVE CountersInv'
  OBVIOUS
<1> USE DEF requestVars, mainVars, metricVars
<1>0. ASSUME UNCHANGED <<st, code>> PROVE Handling' = Handling /\ \A c \in Codes : Done(c)' = Done(c)
  BY <1>0 DEF Handling, Done, In
<1>1. ASSUME NEW why \in {"deletion", "signal", "listen"}, Stop(why) PROVE CountersInv'
  BY <1>0, <1>1 DEF Stop, CountersInv
<1>2. CASE ListenFailsLate \/ Unroute \/ Readmit \/ Tick
  BY <1>0, <1>2 DEF ListenFailsLate, Unroute, Readmit, Tick, CountersInv
<1>3. ASSUME NEW r \in Requests, Arrive(r) PROVE CountersInv'
  <2>1. \A c \in Codes : Done(c)' = Done(c)
    BY <1>3 DEF Arrive, Become, Done, In, MainInv
  <2>2. CASE listener = "open"
    <3>1. Handling' = Handling \union {r} /\ r \notin Handling
      BY <1>3, <2>2 DEF Arrive, Become, Handling, In, MainInv
    <3>2. Cardinality(Handling') = Cardinality(Handling) + 1
      <4>1. IsFiniteSet(Handling)
        BY RequestsFinite DEF Handling, In
      <4> QED BY <3>1, <4>1, FS_AddElement
    <3> QED BY <1>3, <2>1, <2>2, <3>2 DEF Arrive, CountersInv
  <2>3. CASE listener # "open"
    <3>1. Handling' = Handling
      BY <1>3, <2>3 DEF Arrive, Become, Handling, In, MainInv
    <3> QED BY <1>3, <2>1, <2>3, <3>1 DEF Arrive, CountersInv
  <2> QED BY <2>2, <2>3
<1>4. ASSUME NEW r \in Requests, Handle(r) \/ RedisEnds(r) \/ Answer(r) PROVE CountersInv'
  <2>1. \E s \in {"redis", "pending", "answered"} : Become(r, s)
    BY <1>4 DEF Handle, RedisEnds, Answer
  <2>2. st[r] \in {"begun", "redis", "pending"} /\ UNCHANGED <<inflight, counted, main, listener>>
    BY <1>4 DEF Handle, RedisEnds, Answer
  <2>3. Handling' = Handling
    BY <2>1, <2>2 DEF Become, Handling, In, MainInv
  <2>4. \A q \in Requests \ {r} : code'[q] = code[q]
    BY <1>4 DEF Handle, RedisEnds, Answer, FlagsOK
  <2>5. \A c \in Codes : Done(c)' = Done(c)
    BY <2>1, <2>2, <2>4 DEF Become, Done, In, MainInv
  <2> QED BY <2>2, <2>3, <2>5 DEF CountersInv
<1>5. ASSUME NEW r \in Requests, Count(r) PROVE CountersInv'
  <2>1. Handling' = Handling \ {r} /\ r \in Handling
    BY <1>5 DEF Count, Become, Handling, In, MainInv
  <2>2. Cardinality(Handling') = Cardinality(Handling) - 1
    <3>1. IsFiniteSet(Handling)
      BY RequestsFinite DEF Handling, In
    <3> QED BY <2>1, <3>1, FS_RemoveElement
  <2>3. ASSUME NEW c \in Codes
        PROVE  Cardinality(Done(c)') = IF c = code[r] THEN Cardinality(Done(c)) + 1
                                                      ELSE Cardinality(Done(c))
    <3>1. Done(c)' = (IF c = code[r] THEN Done(c) \union {r} ELSE Done(c)) /\ r \notin Done(c)
      BY <1>5 DEF Count, Become, Done, In, MainInv
    <3>2. IsFiniteSet(Done(c))
      BY RequestsFinite DEF Done, In
    <3> QED BY <3>1, <3>2, FS_AddElement
  <2>4. counted' = [c \in Codes |-> Cardinality(Done(c)')]
    BY <1>5, <2>3 DEF Count, CountersInv
  <2> QED BY <1>5, <2>2, <2>4 DEF Count, CountersInv
<1>6. CASE BeginDrain \/ BeginShutdown
  BY <1>0, <1>6 DEF BeginDrain, BeginShutdown, CountersInv
<1>7. CASE ShutdownDone \/ ShutdownTimesOut
  <2>1. Exit /\ main = "stopping"
    BY <1>7 DEF ShutdownDone, ShutdownTimesOut
  <2>2. \A c \in Codes : Done(c)' = Done(c)
    BY <2>1 DEF Exit, Done, In, Handling
  <2> QED BY <2>1, <2>2 DEF Exit, CountersInv
<1>8. CASE Over \/ UNCHANGED vars
  BY <1>0, <1>8 DEF Over, vars, CountersInv
<1> QED BY <1>1, <1>2, <1>3, <1>4, <1>5, <1>6, <1>7, <1>8 DEF Next, Handler, Main

LEMMA TypeAlways == Spec => [](MainInv /\ FlagsOK /\ HistoryOK /\ ClockInv /\ CountersInv)
<1>1. Init => FlagsOK /\ HistoryOK /\ ClockInv
  <2> SUFFICES ASSUME Init PROVE FlagsOK /\ HistoryOK /\ ClockInv
    OBVIOUS
  <2>1. path \in [Requests -> Paths] /\ code \in [Requests -> Codes]
    BY DEF Init, Paths, Codes
  <2>2. ok \in [Requests -> BOOLEAN]
    BY Zenon DEF Init
  <2>3. FlagsOK
    BY <2>1, <2>2 DEF Init, FlagsOK
  <2>4. HistoryOK /\ ClockInv
    BY DelayAssumption DEF Init, HistoryOK, ClockInv
  <2> QED BY <2>3, <2>4
<1>2. Init => CountersInv
  <2> SUFFICES ASSUME Init PROVE CountersInv
    OBVIOUS
  <2>1. Handling = {} /\ \A c \in Codes : Done(c) = {}
    BY DEF Init, Handling, Done, In
  <2> QED BY <2>1, FS_EmptySet DEF Init, CountersInv
<1> QED BY <1>1, <1>2, MainAlways, StepFlags, StepHistory, StepClock, StepCounters, PTL DEF Spec

\* Every variable stays in its range, both timers end the shutdown in time, the gauge is
\* the number of handlers, and every request handled is counted once, under the status
\* that its client saw.
THEOREM TestAppTypeCorrect == Spec => []TypeOK
<1>1. MainInv /\ FlagsOK /\ HistoryOK /\ ClockInv /\ CountersInv => TypeOK
  <2> SUFFICES ASSUME MainInv, FlagsOK, HistoryOK, ClockInv, CountersInv PROVE TypeOK
    OBVIOUS
  <2>1. since \in 0 .. DrainDelay + ShutdownTimeout /\ stoppingAt \in 0 .. DrainDelay
    BY DelayAssumption DEF MainInv, ClockInv
  <2>2. counted = [c \in Codes |-> Cardinality({r \in In("done") : code[r] = c})]
    BY DEF CountersInv, Done
  <2> QED BY <2>1, <2>2 DEF MainInv, States, FlagsOK, HistoryOK, CountersInv, TypeOK
<1> QED BY <1>1, TypeAlways, PTL

-----------------------------------------------------------------------------
(***************************************************************************)
(* The gauge testapp_redis_up.                                             *)
(***************************************************************************)

\* Whoever is about to set the gauge is the last operation or overlapped it; so once the
\* last operation has been reported, the setter is one of them; and the gauge is what
\* the setter saw.
GaugeInv ==
  /\ ender # None => In("pending") \subseteq {ender} \union overlapped
  /\ ender # None /\ main # "exited" => ender \in In("pending") \/ setter \in {ender} \union overlapped
  /\ setter # None => redisUp = ok[setter] /\ st[setter] \in {"answered", "done", "cut"}

LEMMA StepGauge == MainInv /\ FlagsOK /\ HistoryOK /\ GaugeInv /\ [Next]_vars => GaugeInv'
<1> SUFFICES ASSUME MainInv, FlagsOK, HistoryOK, GaugeInv, [Next]_vars PROVE GaugeInv'
  OBVIOUS
<1> USE NoneAssumption DEF HistoryOK, GaugeInv, In, requestVars, metricVars, gaugeVars
<1>1. ASSUME NEW why \in {"deletion", "signal", "listen"}, Stop(why) PROVE GaugeInv'
  BY <1>1 DEF Stop, mainVars
<1>2. CASE ListenFailsLate \/ Unroute \/ Readmit \/ Tick
  BY <1>2 DEF ListenFailsLate, Unroute, Readmit, Tick, mainVars
<1>3. ASSUME NEW r \in Requests, Arrive(r) PROVE GaugeInv'
  BY <1>3 DEF Arrive, Become, MainInv, mainVars
<1>4. ASSUME NEW r \in Requests, Handle(r) PROVE GaugeInv'
  BY <1>4 DEF Handle, Become, MainInv, mainVars
<1>5. ASSUME NEW r \in Requests, RedisEnds(r) PROVE GaugeInv'
  BY <1>5 DEF RedisEnds, Become, MainInv, FlagsOK
<1>6. ASSUME NEW r \in Requests, Answer(r) PROVE GaugeInv'
  BY <1>6 DEF Answer, Become, MainInv, mainVars
<1>7. ASSUME NEW r \in Requests, Count(r) PROVE GaugeInv'
  BY <1>7 DEF Count, Become, MainInv, mainVars
<1>8. CASE BeginDrain \/ BeginShutdown
  BY <1>8 DEF BeginDrain, BeginShutdown
<1>9. CASE ShutdownDone \/ ShutdownTimesOut
  BY <1>9 DEF ShutdownDone, ShutdownTimesOut, Exit, Handling, MainInv
<1>10. CASE Over \/ UNCHANGED vars
  BY <1>10 DEF Over, vars, mainVars
<1> QED BY <1>1, <1>2, <1>3, <1>4, <1>5, <1>6, <1>7, <1>8, <1>9, <1>10 DEF Next, Handler, Main

\* However many handlers overlap: once none is about to set it, the gauge tells how an
\* operation ended that was the last or overlapped the last.
THEOREM GaugeTellsRecentEnd == Spec => []GaugeIsRecent
<1>1. Init => GaugeInv
  BY DEF Init, GaugeInv, In
<1>2. HistoryOK /\ GaugeInv => GaugeIsRecent
  BY NoneAssumption DEF HistoryOK, GaugeInv, GaugeIsRecent
<1> QED BY <1>1, <1>2, TypeAlways, StepGauge, PTL DEF Spec

-----------------------------------------------------------------------------
(***************************************************************************)
(* ServerView.  Every invariant but the last is about the cluster and what *)
(* is on record; the harness only reads it.                                *)
(***************************************************************************)

ViewTypeOK ==
  /\ now \in Nat /\ window \in Windows
  /\ nextScrape \in [Pods -> Nat] /\ gauge \in [Pods -> {0, 1}]
  /\ series \subseteq [pod : Pods, at : Nat, redisUp : {0, 1}]
  /\ sawRedisGone \subseteq Pods /\ steady \subseteq Pods
  /\ darkFor \in [Pods -> 0 .. Interval]

\* A pod that runs is scraped within an interval; one that does not has lost its gauge.
DueInv == \A p \in Pods : IF p \in Up THEN now < nextScrape[p] /\ nextScrape[p] <= now + Interval
                                      ELSE gauge[p] = 1

\* Until the window has ended, a gauge is 0 only where an operation failed.
GoneInv == /\ \A s \in series : s.redisUp = 0 /\ s.at <= FaultEnd => s.pod \in sawRedisGone
           /\ now < FaultEnd => \A p \in Pods : gauge[p] = 0 => p \in sawRedisGone

\* A pod that runs throughout has a scrape behind it that still counts, or is due for one.
SteadyInv == window >= Interval =>
  \A p \in steady : p \in Latest \/ (p \in Up /\ nextScrape[p] <= FaultEnd)

\* The longer a gauge has been 0 without a scrape that saw it, the sooner the next is due.
DarkInv ==
  /\ now <= WindowStart => \A p \in Pods : darkFor[p] = 0
  /\ \A p \in Pods : darkFor[p] # 0 /\ (now <= FaultEnd \/ darkFor[p] = Interval) =>
       \/ \E s \in InRange : s.redisUp = 0
       \/ /\ now <= FaultEnd /\ p \in Up /\ gauge[p] = 0
          /\ nextScrape[p] + darkFor[p] <= now + Interval

ScrapeInv == ViewTypeOK /\ DueInv /\ GoneInv /\ SteadyInv /\ DarkInv

LEMMA InitScrape == ViewInit => ScrapeInv
<1> SUFFICES ASSUME ViewInit PROVE ScrapeInv
  OBVIOUS
<1> USE ViewAssumption
<1>1. ViewTypeOK /\ DueInv
  BY DEF ViewInit, ViewTypeOK, DueInv, Up
<1>2. GoneInv /\ DarkInv
  BY DEF ViewInit, GoneInv, DarkInv
<1>3. SteadyInv
  <2>1. window \in 1 .. FaultEnd
    BY DEF ViewInit
  <2>2. \A p \in Up : nextScrape[p] \in Nat /\ nextScrape[p] <= Interval
    BY DEF ViewInit, Up
  <2> QED BY <2>1, <2>2 DEF ViewInit, SteadyInv
<1> QED BY <1>1, <1>2, <1>3 DEF ScrapeInv

\* What is on record is never lost.
LEMMA MoreScrapes ==
  ASSUME series \subseteq series', UNCHANGED window
  PROVE  Latest \subseteq Latest' /\ InRange \subseteq InRange'
BY DEF Latest, InRange, WindowStart

LEMMA StepTime == ScrapeInv /\ TimePasses => ScrapeInv'
<1> SUFFICES ASSUME ScrapeInv, TimePasses PROVE ScrapeInv'
  OBVIOUS
<1> USE ViewAssumption DEF ViewTypeOK
<1> DEFINE Scraping == ScrapedAt(now')
           New == {[pod |-> p, at |-> now', redisUp |-> gauge[p]] : p \in Scraping}
<1>1. /\ now' = now + 1 /\ series' = series \union New
      /\ nextScrape' = [p \in Pods |-> IF p \in Scraping THEN now' + Interval ELSE nextScrape[p]]
      /\ darkFor' = Darken(now')
      /\ UNCHANGED <<window, gauge, sawRedisGone, steady>>
  BY DEF TimePasses
<1>2. Scraping = {p \in Pods : nextScrape[p] = now'} /\ Scraping \subseteq Up
  BY <1>1 DEF ScrapeInv, ScrapedAt, Up
<1>3. \A p \in Pods : p \in Scraping \/ nextScrape'[p] = nextScrape[p]
  BY <1>1
<1>4. \A p \in Scraping : nextScrape'[p] = now' + Interval
  BY <1>1, <1>2
<1>5. Up' = Up
  BY <1>1, <1>2, <1>3, <1>4 DEF ScrapeInv, Up
<1>6. window \in Nat /\ window <= FaultEnd /\ WindowStart \in Nat /\ WindowStart' = WindowStart
  BY <1>1 DEF ScrapeInv, WindowStart
<1>7. Latest \subseteq Latest' /\ InRange \subseteq InRange'
  BY <1>1, MoreScrapes
<1>8. \A p \in Pods : darkFor'[p] = IF darkFor[p] = Interval \/ now' <= WindowStart \/ now' > FaultEnd
                                      THEN darkFor[p]
                                      ELSE IF gauge[p] = 0 THEN darkFor[p] + 1 ELSE 0
  BY <1>1 DEF Darken
<1>9. ViewTypeOK'
  <2>1. New \subseteq [pod : Pods, at : Nat, redisUp : {0, 1}]
    BY <1>1, <1>2 DEF ScrapeInv
  <2>2. darkFor' \in [Pods -> 0 .. Interval]
    <3>1. \A p \in Pods : darkFor'[p] \in 0 .. Interval
      BY <1>8 DEF ScrapeInv
    <3> QED BY <1>1, <3>1 DEF Darken
  <2>3. nextScrape' \in [Pods -> Nat]
    BY <1>1 DEF ScrapeInv
  <2> QED BY <1>1, <2>1, <2>2, <2>3 DEF ScrapeInv
<1>10. DueInv'
  <2> SUFFICES ASSUME NEW p \in Pods
               PROVE  IF p \in Up THEN now' < nextScrape'[p] /\ nextScrape'[p] <= now' + Interval
                                  ELSE gauge[p] = 1
    BY <1>1, <1>5 DEF DueInv
  <2>1. nextScrape[p] \in Nat /\ now \in Nat
    BY DEF ScrapeInv
  <2>2. CASE p \in Scraping
    BY <1>1, <1>2, <1>4, <2>1, <2>2
  <2>3. CASE p \notin Scraping
    BY <1>1, <1>2, <1>3, <2>1, <2>3 DEF ScrapeInv, DueInv
  <2> QED BY <2>2, <2>3
<1>11. GoneInv'
  <2>1. ASSUME NEW s \in New, s.redisUp = 0, s.at <= FaultEnd PROVE s.pod \in sawRedisGone
    <3>1. PICK p \in Scraping : s = [pod |-> p, at |-> now', redisUp |-> gauge[p]]
      OBVIOUS
    <3>2. gauge[p] = 0 /\ now < FaultEnd /\ p \in Pods
      BY <1>1, <1>2, <2>1, <3>1 DEF ScrapeInv
    <3> QED BY <3>1, <3>2 DEF ScrapeInv, GoneInv
  <2>2. now' < FaultEnd => now < FaultEnd
    BY <1>1 DEF ScrapeInv
  <2> QED BY <1>1, <2>1, <2>2 DEF ScrapeInv, GoneInv
<1>12. SteadyInv'
  <2> SUFFICES ASSUME window >= Interval, NEW p \in steady
               PROVE  p \in Latest' \/ (p \in Up' /\ nextScrape'[p] <= FaultEnd)
    BY <1>1 DEF SteadyInv
  <2>1. CASE p \in Latest
    BY <1>7, <2>1
  <2>2. CASE p \in Up /\ nextScrape[p] <= FaultEnd /\ p \notin Scraping
    BY <1>3, <1>5, <2>2 DEF ScrapeInv
  <2>3. CASE p \in Scraping /\ now' <= FaultEnd
    <3> DEFINE s == [pod |-> p, at |-> now', redisUp |-> gauge[p]]
    <3>1. s \in series' /\ s.at = now' /\ s.pod = p
      BY <1>1, <2>3
    <3>2. CASE now' + Interval <= FaultEnd
      BY <1>4, <1>2, <1>5, <2>3, <3>2
    <3>3. CASE FaultEnd - Interval < now'
      <4> HIDE DEF s
      <4> QED BY <2>3, <3>1, <3>3 DEF Latest
    <3> QED BY <1>1, <3>2, <3>3 DEF ScrapeInv
  <2> QED BY <1>2, <2>1, <2>2, <2>3 DEF ScrapeInv, SteadyInv
<1>13. DarkInv'
  <2>1. now' <= WindowStart' => \A p \in Pods : darkFor'[p] = 0
    BY <1>1, <1>6, <1>8 DEF ScrapeInv, DarkInv
  <2> DEFINE Noticed(p) == \/ \E s \in InRange' : s.redisUp = 0
                           \/ /\ now' <= FaultEnd /\ p \in Up' /\ gauge'[p] = 0
                              /\ nextScrape'[p] + darkFor'[p] <= now' + Interval
  <2>2. ASSUME NEW p \in Pods, darkFor'[p] # 0, now' <= FaultEnd \/ darkFor'[p] = Interval
        PROVE  Noticed(p)
    <3>1. /\ now \in Nat /\ darkFor[p] \in 0 .. Interval /\ nextScrape[p] \in Nat
          /\ p \in Up => now < nextScrape[p] /\ nextScrape[p] <= now + Interval
          /\ gauge[p] = 0 => p \in Up
      BY DEF ScrapeInv, DueInv
    <3>2. CASE \E s \in InRange : s.redisUp = 0
      BY <1>7, <3>2
    <3> SUFFICES ASSUME ~ \E s \in InRange : s.redisUp = 0 PROVE Noticed(p)
      BY <3>2
    <3>3. darkFor[p] # 0 /\ (now <= FaultEnd \/ darkFor[p] = Interval) =>
            p \in Up /\ gauge[p] = 0 /\ nextScrape[p] + darkFor[p] <= now + Interval
      BY DEF ScrapeInv, DarkInv
    <3>4. darkFor[p] # Interval
      BY <3>1, <3>3
    <3>5. now' <= FaultEnd /\ WindowStart < now'
      BY <1>1, <1>6, <1>8, <2>2, <3>1, <3>4 DEF ScrapeInv, DarkInv
    <3>6. gauge[p] = 0 /\ darkFor'[p] = darkFor[p] + 1
      BY <1>1, <1>6, <1>8, <2>2, <3>1, <3>4, <3>5
    <3>7. nextScrape[p] + darkFor[p] <= now + Interval
      BY <1>1, <3>1, <3>3, <3>5, <3>6
    <3>8. CASE p \in Scraping
      <4> DEFINE s == [pod |-> p, at |-> now', redisUp |-> gauge[p]]
      <4>1. s \in series' /\ s.at = now' /\ s.redisUp = 0
        BY <1>1, <3>6, <3>8
      <4> HIDE DEF s
      <4>2. s \in InRange'
        BY <1>6, <3>5, <4>1 DEF InRange
      <4> QED BY <4>1, <4>2
    <3>9. CASE p \notin Scraping
      BY <1>1, <1>3, <1>5, <3>1, <3>5, <3>6, <3>7, <3>9
    <3> QED BY <3>8, <3>9
  <2> QED BY <2>1, <2>2 DEF DarkInv
<1> QED BY <1>9, <1>10, <1>11, <1>12, <1>13 DEF ScrapeInv

LEMMA StepPodStops == ASSUME NEW p \in Pods, ScrapeInv, PodStops(p) PROVE ScrapeInv'
<1> USE ViewAssumption DEF ViewTypeOK
<1>1. /\ p \in Up /\ nextScrape' = [nextScrape EXCEPT ![p] = 0] /\ gauge' = [gauge EXCEPT ![p] = 1]
      /\ steady' = IF now < FaultEnd THEN steady \ {p} ELSE steady
      /\ darkFor' = [darkFor EXCEPT ![p] = IF @ = Interval THEN @ ELSE 0]
      /\ UNCHANGED <<now, window, series, sawRedisGone>>
  BY DEF PodStops, Relight
<1>2. Up' = Up \ {p}
  BY <1>1 DEF ScrapeInv, Up
<1>3. WindowStart' = WindowStart /\ Latest' = Latest /\ InRange' = InRange
  BY <1>1 DEF WindowStart, Latest, InRange
<1>4. ViewTypeOK' /\ DueInv'
  BY <1>1, <1>2 DEF ScrapeInv, DueInv
<1>5. GoneInv'
  BY <1>1 DEF ScrapeInv, GoneInv
<1>6. SteadyInv'
  <2> SUFFICES ASSUME window >= Interval, NEW q \in steady'
               PROVE  q \in Latest \/ (q \in Up' /\ nextScrape'[q] <= FaultEnd)
    BY <1>1, <1>3 DEF SteadyInv
  <2>1. q \in steady /\ q \in Pods
    BY <1>1 DEF ScrapeInv
  <2>2. q \in Latest \/ (q \in Up /\ nextScrape[q] <= FaultEnd)
    BY <2>1 DEF ScrapeInv, SteadyInv
  <2>3. CASE q = p
    <3>1. ~ (now < FaultEnd)
      BY <1>1, <2>3
    <3>2. now < nextScrape[p] /\ nextScrape[p] \in Nat
      BY <1>1 DEF ScrapeInv, DueInv
    <3> QED BY <2>2, <2>3, <3>1, <3>2 DEF ScrapeInv
  <2>4. CASE q # p
    BY <1>1, <1>2, <2>1, <2>2, <2>4 DEF ScrapeInv
  <2> QED BY <2>3, <2>4
<1>7. DarkInv'
  <2>1. now' <= WindowStart' => \A q \in Pods : darkFor'[q] = 0
    BY <1>1, <1>3 DEF ScrapeInv, DarkInv
  <2> SUFFICES ASSUME NEW q \in Pods, darkFor'[q] # 0, now <= FaultEnd \/ darkFor'[q] = Interval
               PROVE  \/ \E s \in InRange : s.redisUp = 0
                      \/ /\ now <= FaultEnd /\ q \in Up' /\ gauge'[q] = 0
                         /\ nextScrape'[q] + darkFor'[q] <= now + Interval
    BY <1>1, <1>3, <2>1 DEF DarkInv
  <2>2. CASE q = p
    <3>1. darkFor[p] = Interval
      BY <1>1, <2>2 DEF ScrapeInv
    <3>2. now < nextScrape[p] /\ nextScrape[p] \in Nat
      BY <1>1 DEF ScrapeInv, DueInv
    <3> QED BY <3>1, <3>2 DEF ScrapeInv, DarkInv
  <2>3. CASE q # p
    <3>1. darkFor'[q] = darkFor[q] /\ gauge'[q] = gauge[q] /\ nextScrape'[q] = nextScrape[q]
      BY <1>1, <2>3 DEF ScrapeInv
    <3> QED BY <1>2, <2>3, <3>1 DEF ScrapeInv, DarkInv
  <2> QED BY <2>2, <2>3
<1> QED BY <1>4, <1>5, <1>6, <1>7 DEF ScrapeInv

LEMMA StepPodStarts == ASSUME NEW p \in Pods, ScrapeInv, PodStarts(p) PROVE ScrapeInv'
<1> USE ViewAssumption DEF ViewTypeOK
<1>1. PICK t \in now + 1 .. now + Interval : nextScrape' = [nextScrape EXCEPT ![p] = t]
  BY DEF PodStarts
<1>2. /\ p \notin Up
      /\ steady' = IF now <= WindowStart THEN steady \union {p} ELSE steady
      /\ UNCHANGED <<now, window, gauge, series, sawRedisGone, darkFor>>
  BY DEF PodStarts
<1>3. t \in Nat /\ now < t /\ t <= now + Interval /\ Up' = Up \union {p}
  BY <1>1 DEF ScrapeInv, Up
<1>4. WindowStart' = WindowStart /\ Latest' = Latest /\ InRange' = InRange
  BY <1>2 DEF WindowStart, Latest, InRange
<1>5. ViewTypeOK' /\ DueInv'
  BY <1>1, <1>2, <1>3 DEF ScrapeInv, DueInv
<1>6. GoneInv'
  BY <1>2 DEF ScrapeInv, GoneInv
<1>7. SteadyInv'
  <2> SUFFICES ASSUME window >= Interval, NEW q \in steady'
               PROVE  q \in Latest \/ (q \in Up' /\ nextScrape'[q] <= FaultEnd)
    BY <1>2, <1>4 DEF SteadyInv
  <2>1. CASE q = p /\ now <= WindowStart
    <3>1. now <= FaultEnd - window /\ window \in Nat
      BY <2>1 DEF ScrapeInv, WindowStart
    <3>2. nextScrape'[p] = t
      BY <1>1 DEF ScrapeInv
    <3> QED BY <1>3, <2>1, <3>1, <3>2 DEF ScrapeInv
  <2>2. CASE q \in steady
    <3>1. q \in Pods /\ (q \in Latest \/ (q \in Up /\ nextScrape[q] <= FaultEnd))
      BY <2>2 DEF ScrapeInv, SteadyInv
    <3>2. q \in Up => nextScrape'[q] = nextScrape[q]
      BY <1>1, <1>2, <3>1 DEF ScrapeInv
    <3> QED BY <1>3, <3>1, <3>2
  <2> QED BY <1>2, <2>1, <2>2
<1>8. DarkInv'
  <2>1. \A q \in Up : nextScrape'[q] = nextScrape[q]
    BY <1>1, <1>2 DEF ScrapeInv, Up
  <2> QED BY <1>2, <1>3, <1>4, <2>1 DEF ScrapeInv, DarkInv
<1> QED BY <1>5, <1>6, <1>7, <1>8 DEF ScrapeInv

LEMMA StepOperate ==
  ASSUME NEW p \in Pods, NEW b \in BOOLEAN, ScrapeInv, Operate(p, b) PROVE ScrapeInv'
<1> USE ViewAssumption DEF ViewTypeOK
<1>1. /\ p \in Up /\ gauge' = [gauge EXCEPT ![p] = IF b THEN 1 ELSE 0]
      /\ sawRedisGone' = IF ~b /\ now < FaultEnd THEN sawRedisGone \union {p} ELSE sawRedisGone
      /\ UNCHANGED <<now, nextScrape, window, series, steady>>
  BY DEF Operate
<1>2. darkFor' = IF b THEN [darkFor EXCEPT ![p] = IF @ = Interval THEN @ ELSE 0] ELSE darkFor
  BY DEF Operate, Relight
<1>3. WindowStart' = WindowStart /\ Latest' = Latest /\ InRange' = InRange /\ Up' = Up
  BY <1>1 DEF WindowStart, Latest, InRange, Up
<1>4. ViewTypeOK'
  BY <1>1, <1>2 DEF ScrapeInv
<1>5. DueInv'
  BY <1>1, <1>3 DEF ScrapeInv, DueInv
<1>6. GoneInv'
  BY <1>1 DEF ScrapeInv, GoneInv
<1>7. SteadyInv'
  BY <1>1, <1>3 DEF ScrapeInv, SteadyInv
<1>8. DarkInv'
  <2>1. now' <= WindowStart' => \A q \in Pods : darkFor'[q] = 0
    BY <1>1, <1>2, <1>3 DEF ScrapeInv, DarkInv
  <2> SUFFICES ASSUME NEW q \in Pods, darkFor'[q] # 0, now <= FaultEnd \/ darkFor'[q] = Interval
               PROVE  \/ \E s \in InRange : s.redisUp = 0
                      \/ /\ now <= FaultEnd /\ q \in Up /\ gauge'[q] = 0
                         /\ nextScrape[q] + darkFor'[q] <= now + Interval
    BY <1>1, <1>3, <2>1 DEF DarkInv
  <2>2. darkFor'[q] = darkFor[q]
    BY <1>2 DEF ScrapeInv
  <2>3. CASE q = p /\ b
    <3>1. darkFor[p] = Interval
      BY <1>2, <2>3 DEF ScrapeInv
    <3>2. now < nextScrape[p] /\ nextScrape[p] \in Nat
      BY <1>1 DEF ScrapeInv, DueInv
    <3> QED BY <3>1, <3>2 DEF ScrapeInv, DarkInv
  <2>4. CASE ~ (q = p /\ b)
    <3>1. gauge'[q] = 0 \/ gauge'[q] = gauge[q]
      BY <1>1, <2>4 DEF ScrapeInv
    <3> QED BY <2>2, <3>1 DEF ScrapeInv, DarkInv
  <2> QED BY <2>3, <2>4
<1> QED BY <1>4, <1>5, <1>6, <1>7, <1>8 DEF ScrapeInv

\* What the harness does changes nothing that it reads.
LEMMA HarnessReads ==
  SettleDelay \/ CollectServerView \/ Reported \/ UNCHANGED viewVars => Others
BY DEF SettleDelay, CollectServerView, Query, Reported, Others, viewVars

LEMMA StepScrape == ScrapeInv /\ [ViewNext]_viewVars => ScrapeInv'
<1> SUFFICES ASSUME ScrapeInv, [ViewNext]_viewVars PROVE ScrapeInv'
  OBVIOUS
<1>1. CASE Others
  <2>1. Up' = Up /\ Latest' = Latest /\ InRange' = InRange /\ WindowStart' = WindowStart
    BY <1>1 DEF Others, Up, Latest, InRange, WindowStart
  <2> QED BY <1>1, <2>1 DEF Others, historyVars, ScrapeInv, ViewTypeOK, DueInv, GoneInv, SteadyInv, DarkInv
<1> QED BY <1>1, HarnessReads, StepTime, StepPodStops, StepPodStarts, StepOperate
        DEF ViewNext, Cluster

\* The two values of the view, in terms of what was scraped.
LEMMA ViewValues ==
  ASSUME ViewTypeOK
  PROVE  /\ IsFiniteSet(Latest) /\ TargetsUp = Cardinality(Latest) /\ TargetsUp \in Nat
         /\ MinRedisUp \in {0, 1}
         /\ MinRedisUp = 0 <=> InRange = {} \/ \E s \in InRange : s.redisUp = 0
<1>1. IsFiniteSet(Latest)
  <2>1. Latest \subseteq Pods
    BY DEF ViewTypeOK, Latest
  <2> QED BY <2>1, FS_Subset, ViewAssumption
<1>2. TargetsUp = Cardinality(Latest) /\ TargetsUp \in Nat
  BY <1>1, FS_EmptySet, FS_CardinalityType DEF TargetsUp, Scalar
<1>3. CASE InRange = {}
  BY <1>1, <1>2, <1>3 DEF MinRedisUp, Scalar
<1>4. CASE InRange # {}
  <2> DEFINE V == {s.redisUp : s \in InRange}
  <2>1. V \subseteq {0, 1} /\ V # {}
    BY <1>4 DEF ViewTypeOK, InRange
  <2>2. MinRedisUp = Min(V)
    BY <1>4 DEF MinRedisUp, Scalar
  <2>3. 0 \in V <=> \E s \in InRange : s.redisUp = 0
    OBVIOUS
  <2> HIDE DEF V
  <2>4. \E x \in V : \A y \in V : x =< y
    <3>1. \A y \in V : y \in Nat /\ (y = 0 \/ y = 1)
      BY <2>1
    <3>2. CASE 0 \in V
      BY <3>1, <3>2
    <3>3. CASE 0 \notin V
      <4>1. PICK x \in V : TRUE
        BY <2>1
      <4>2. x = 1 /\ \A y \in V : y = 1
        BY <3>1, <3>3
      <4> QED BY <4>1, <4>2
    <3> QED BY <3>2, <3>3
  <2>5. Min(V) \in V /\ \A y \in V : Min(V) =< y
    BY <2>4 DEF Min
  <2>6. Min(V) \in {0, 1} /\ (Min(V) = 0 <=> 0 \in V)
    <3> DEFINE m == Min(V)
    <3>1. m \in V /\ \A y \in V : m =< y
      BY <2>5
    <3> HIDE DEF m
    <3>2. m = 0 \/ m = 1
      BY <2>1, <3>1
    <3>3. 0 \in V => m = 0
      BY <3>1, <3>2
    <3>4. m \in {0, 1} /\ (m = 0 <=> 0 \in V)
      BY <3>1, <3>2, <3>3
    <3> QED BY <3>4 DEF m
  <2> QED BY <1>1, <1>2, <1>4, <2>2, <2>3, <2>6
<1> QED BY <1>3, <1>4

\* Once the harness has settled the window is over; each query is then answered from what
\* is on record, which no longer changes.
ReportInv ==
  /\ view \in [targetsUp : Nat, minRedisUp : {0, 1}]
  /\ pc \in {"up", "served", "errors", "redis", "report"} => now = FaultEnd + Settle
  /\ pc \in {"served", "errors", "redis", "report"} => view.targetsUp = TargetsUp
  /\ pc = "report" => view.minRedisUp = MinRedisUp

LEMMA StepReport == ScrapeInv /\ ReportInv /\ [ViewNext]_viewVars => ReportInv'
<1> SUFFICES ASSUME ScrapeInv, ReportInv, [ViewNext]_viewVars PROVE ReportInv'
  OBVIOUS
<1>1. TargetsUp \in Nat /\ MinRedisUp \in {0, 1}
  BY ViewValues DEF ScrapeInv
<1>2. CASE pc = "settle" /\ Cluster
  <2>1. UNCHANGED queryVars
    BY <1>2 DEF Cluster, TimePasses, PodStops, PodStarts, Operate
  <2> QED BY <1>2, <2>1 DEF queryVars, ReportInv
<1>3. CASE Others /\ (SettleDelay \/ CollectServerView \/ Reported \/ UNCHANGED viewVars)
  <2>1. now' = now /\ TargetsUp' = TargetsUp /\ MinRedisUp' = MinRedisUp
    BY <1>3 DEF Others, TargetsUp, MinRedisUp, Scalar, Latest, InRange, WindowStart
  <2>2. CASE SettleDelay
    BY <2>1, <2>2 DEF SettleDelay, Cancelled, ReportInv
  <2>3. CASE Query("up", "served", [view EXCEPT !.targetsUp = TargetsUp])
    BY <1>1, <2>1, <2>3 DEF Query, Cancelled, ReportInv
  <2>4. CASE Query("served", "errors", view) \/ Query("errors", "redis", view)
    BY <2>1, <2>4 DEF Query, Cancelled, ReportInv
  <2>5. CASE Query("redis", "report", [view EXCEPT !.minRedisUp = MinRedisUp])
    BY <1>1, <2>1, <2>5 DEF Query, Cancelled, ReportInv
  <2>6. CASE Reported \/ UNCHANGED viewVars
    BY <2>1, <2>6 DEF Reported, viewVars, queryVars, ReportInv
  <2> QED BY <1>3, <2>2, <2>3, <2>4, <2>5, <2>6 DEF CollectServerView
<1> QED BY <1>2, <1>3, HarnessReads DEF ViewNext

LEMMA SteadyPodsAreScraped ==
  ASSUME ScrapeInv, FaultEnd <= now, window >= Interval PROVE steady \subseteq Latest
<1> SUFFICES ASSUME NEW p \in steady PROVE p \in Latest
  OBVIOUS
<1>1. p \in Pods /\ now \in Nat /\ nextScrape[p] \in Nat /\ FaultEnd \in Nat
  BY ViewAssumption DEF ScrapeInv, ViewTypeOK
<1> QED BY <1>1 DEF ScrapeInv, DueInv, SteadyInv

\* A view that is reported was observed, for any pods, interval and windows: a minimum of 0
\* is an operation that failed if anything was scraped in the window, a gauge that was 0 for
\* an interval of it is reported as 0, and a pod that ran throughout is counted.
THEOREM ServerViewObserved == ViewSpec => []ServerViewIsObserved
<1>1. ViewInit => ReportInv
  BY DEF ViewInit, ReportInv
<1>2. ScrapeInv /\ ReportInv => ServerViewIsObserved
  <2> SUFFICES ASSUME ScrapeInv, ReportInv, pc = "report"
               PROVE  ZeroIsObserved /\ OutageIsSeen /\ SteadyPodsAreUp
    BY DEF ServerViewIsObserved
  <2> USE ViewAssumption
  <2>1. /\ now \in Nat /\ FaultEnd <= now /\ window \in Nat
        /\ view.targetsUp = Cardinality(Latest) /\ IsFiniteSet(Latest)
        /\ view.minRedisUp = 0 <=> InRange = {} \/ \E s \in InRange : s.redisUp = 0
    <3>1. /\ IsFiniteSet(Latest) /\ TargetsUp = Cardinality(Latest)
          /\ MinRedisUp = 0 <=> InRange = {} \/ \E s \in InRange : s.redisUp = 0
      BY ViewValues DEF ScrapeInv
    <3> QED BY <3>1 DEF ScrapeInv, ViewTypeOK, ReportInv
  <2>2. SteadyPodsAreUp
    <3> SUFFICES ASSUME window >= Interval PROVE Cardinality(steady) <= view.targetsUp
      BY DEF SteadyPodsAreUp
    <3> QED BY <2>1, SteadyPodsAreScraped, FS_Subset
  <2>3. ZeroIsObserved
    <3> SUFFICES ASSUME view.minRedisUp = 0, InRange # {} \/ (window >= Interval /\ steady # {})
                 PROVE  sawRedisGone # {}
      BY DEF ZeroIsObserved
    <3>1. InRange # {}
      <4> SUFFICES ASSUME window >= Interval, steady # {} PROVE InRange # {}
        OBVIOUS
      <4>1. PICK p \in Latest : TRUE
        BY <2>1, SteadyPodsAreScraped
      <4>2. PICK s \in series : FaultEnd - Interval < s.at /\ s.at <= FaultEnd
        BY <4>1 DEF Latest
      <4>3. WindowStart < s.at
        BY <2>1, <4>2 DEF ScrapeInv, ViewTypeOK, WindowStart
      <4> QED BY <4>2, <4>3 DEF InRange
    <3>2. PICK s \in InRange : s.redisUp = 0
      BY <2>1, <3>1
    <3> QED BY <3>2 DEF InRange, ScrapeInv, GoneInv
  <2>4. OutageIsSeen
    <3> SUFFICES ASSUME NEW p \in Pods, darkFor[p] = Interval PROVE view.minRedisUp = 0
      BY DEF OutageIsSeen
    <3>1. p \in Up => now < nextScrape[p] /\ nextScrape[p] \in Nat
      BY DEF ScrapeInv, ViewTypeOK, DueInv
    <3>2. \E s \in InRange : s.redisUp = 0
      BY <2>1, <3>1 DEF ScrapeInv, DarkInv
    <3> QED BY <2>1, <3>2
  <2> QED BY <2>2, <2>3, <2>4
<1> QED BY <1>1, <1>2, InitScrape, StepScrape, StepReport, PTL DEF ViewSpec
=============================================================================
