---------------------------- MODULE ProberProofs -----------------------------
(***************************************************************************)
(* Proofs about Prober, for every pool and every number of ticks.          *)
(***************************************************************************)
EXTENDS Prober, TLAPS, FiniteSetTheorems

(***************************************************************************)
(* What Append and Tail do to the values of a sequence, and to the field   *)
(* at of a sequence of samples.                                            *)
(***************************************************************************)
Values(s) == {s[i] : i \in DOMAIN s}
Ats(s)    == {s[i].at : i \in DOMAIN s}
Distinct(s)   == \A i, j \in DOMAIN s : s[i] = s[j] => i = j
DistinctAt(s) == \A i, j \in DOMAIN s : s[i].at = s[j].at => i = j

\* Appending a value adds it, and keeps the values distinct if it is new.
LEMMA AppendValues ==
  ASSUME NEW S, NEW s \in Seq(S), NEW e \in S
  PROVE  /\ Append(s, e) \in Seq(S)
         /\ Len(Append(s, e)) = Len(s) + 1
         /\ Values(Append(s, e)) = Values(s) \union {e}
         /\ Ats(Append(s, e)) = Ats(s) \union {e.at}
         /\ Distinct(s) /\ e \notin Values(s) => Distinct(Append(s, e))
         /\ DistinctAt(s) /\ e.at \notin Ats(s) => DistinctAt(Append(s, e))
<1> DEFINE t == Append(s, e)
<1>1. /\ t \in Seq(S) /\ Len(t) = Len(s) + 1
      /\ DOMAIN s = 1 .. Len(s) /\ DOMAIN t = 1 .. Len(s) + 1
      /\ Len(s) \in Nat
  OBVIOUS
<1>2. /\ \A i \in 1 .. Len(s) : t[i] = s[i]
      /\ t[Len(s) + 1] = e
  OBVIOUS
<1> HIDE DEF t
<1>3. Values(t) = Values(s) \union {e}
  BY <1>1, <1>2 DEF Values
<1>4. Ats(t) = Ats(s) \union {e.at}
  BY <1>1, <1>2 DEF Ats
<1>5. ASSUME Distinct(s), e \notin Values(s) PROVE Distinct(t)
  BY <1>1, <1>2, <1>5 DEF Values, Distinct
<1>6. ASSUME DistinctAt(s), e.at \notin Ats(s) PROVE DistinctAt(t)
  BY <1>1, <1>2, <1>6 DEF Ats, DistinctAt
<1> QED BY <1>1, <1>3, <1>4, <1>5, <1>6 DEF t

\* Taking the head of a sequence of distinct values takes it away for good.
LEMMA TailValues ==
  ASSUME NEW S, NEW s \in Seq(S), s # <<>>
  PROVE  /\ Tail(s) \in Seq(S)
         /\ Len(Tail(s)) = Len(s) - 1
         /\ Head(s) \in S
         /\ Values(s) = Values(Tail(s)) \union {Head(s)}
         /\ Ats(s) = Ats(Tail(s)) \union {Head(s).at}
         /\ Distinct(s) => Distinct(Tail(s)) /\ Head(s) \notin Values(Tail(s))
         /\ DistinctAt(s) => DistinctAt(Tail(s)) /\ Head(s).at \notin Ats(Tail(s))
<1> DEFINE t == Tail(s)
<1>1. /\ t \in Seq(S) /\ Len(t) = Len(s) - 1 /\ Head(s) = s[1] /\ Head(s) \in S
      /\ DOMAIN s = 1 .. Len(s) /\ DOMAIN t = 1 .. Len(s) - 1
      /\ Len(s) \in Nat \ {0}
  OBVIOUS
<1>2. \A i \in 1 .. Len(s) - 1 : t[i] = s[i + 1] /\ i + 1 \in 1 .. Len(s)
  OBVIOUS
<1> HIDE DEF t
<1>3. \A j \in 1 .. Len(s) : j = 1 \/ (j - 1 \in 1 .. Len(s) - 1 /\ s[j] = t[j - 1])
  BY <1>1, <1>2
<1>4. Values(s) = Values(t) \union {Head(s)}
  <2>1. Values(s) \subseteq Values(t) \union {Head(s)}
    BY <1>1, <1>3 DEF Values
  <2>2. Values(t) \union {Head(s)} \subseteq Values(s)
    BY <1>1, <1>2 DEF Values
  <2> QED BY <2>1, <2>2
<1>5. Ats(s) = Ats(t) \union {Head(s).at}
  <2>1. Ats(s) \subseteq Ats(t) \union {Head(s).at}
    BY <1>1, <1>3 DEF Ats
  <2>2. ASSUME NEW i \in DOMAIN t PROVE t[i].at \in Ats(s)
    <3>1. i + 1 \in DOMAIN s /\ t[i] = s[i + 1]
      BY <1>1, <1>2
    <3> QED BY <3>1 DEF Ats
  <2>3. Head(s).at \in Ats(s)
    BY <1>1 DEF Ats
  <2> QED BY <2>1, <2>2, <2>3 DEF Ats
<1>6. ASSUME Distinct(s) PROVE Distinct(t) /\ Head(s) \notin Values(t)
  <2>1. ASSUME NEW i \in DOMAIN t, NEW j \in DOMAIN t, t[i] = t[j] PROVE i = j
    <3>1. s[i + 1] = s[j + 1] /\ i + 1 \in DOMAIN s /\ j + 1 \in DOMAIN s
      BY <1>1, <1>2, <2>1
    <3> QED BY <1>1, <1>6, <3>1 DEF Distinct
  <2>2. ASSUME NEW i \in DOMAIN t PROVE Head(s) # t[i]
    <3>1. i + 1 \in DOMAIN s /\ 1 \in DOMAIN s /\ t[i] = s[i + 1] /\ i + 1 # 1
      BY <1>1, <1>2
    <3> QED BY <1>1, <1>6, <3>1 DEF Distinct
  <2> QED BY <2>1, <2>2 DEF Distinct, Values
<1>7. ASSUME DistinctAt(s) PROVE DistinctAt(t) /\ Head(s).at \notin Ats(t)
  <2>1. ASSUME NEW i \in DOMAIN t, NEW j \in DOMAIN t, t[i].at = t[j].at PROVE i = j
    <3>1. s[i + 1].at = s[j + 1].at /\ i + 1 \in DOMAIN s /\ j + 1 \in DOMAIN s
      BY <1>1, <1>2, <2>1
    <3> QED BY <1>1, <1>7, <3>1 DEF DistinctAt
  <2>2. ASSUME NEW i \in DOMAIN t PROVE Head(s).at # t[i].at
    <3>1. i + 1 \in DOMAIN s /\ 1 \in DOMAIN s /\ t[i] = s[i + 1] /\ i + 1 # 1
      BY <1>1, <1>2
    <3> QED BY <1>1, <1>7, <3>1 DEF DistinctAt
  <2> QED BY <2>1, <2>2 DEF DistinctAt, Ats
<1> QED BY <1>1, <1>4, <1>5, <1>6, <1>7 DEF t

\* A worker record is read by its state alone.
LEMMA WorkerFields ==
  ASSUME NEW r \in WorkerState
  PROVE  /\ r.st = "inflight" => r.at \in Tick
         /\ r.st = "sending"  => r.at \in Tick /\ r.outcome \in Outcomes
         /\ r.st \in {"inflight", "sending"} => r # Idle /\ r # Done
         /\ r.st \notin {"inflight", "sending"} => r = Idle \/ r = Done
BY DEF WorkerState, Idle, Done

LEMMA PoolNotEmpty == Workers # {}
BY PoolAssumption, FS_EmptySet

-----------------------------------------------------------------------------
(* Type correctness. *)

LEMMA InitTypeOK == Init => TypeOK
<1> SUFFICES ASSUME Init PROVE TypeOK
  OBVIOUS
<1>1. 0 \in Tick
  BY BoundAssumption DEF Tick
<1>2. worker \in [Workers -> WorkerState]
  BY DEF Init, WorkerState
<1>3. /\ jobs \in Seq(Tick) /\ Len(jobs) <= Concurrency
      /\ results \in Seq(Sample) /\ Len(results) <= Concurrency
      /\ samples \in Seq(Sample)
  BY PoolAssumption DEF Init
<1>4. cancelled \in BOOLEAN /\ jobsClosed \in BOOLEAN /\ resultsClosed \in BOOLEAN
      /\ collectorDone \in BOOLEAN
  BY DEF Init
<1> QED BY <1>1, <1>2, <1>3, <1>4 DEF Init, TypeOK

LEMMA StepTypeOK == TypeOK /\ [Next]_vars => TypeOK'
<1> SUFFICES ASSUME TypeOK, [Next]_vars PROVE TypeOK'
  OBVIOUS
<1> USE PoolAssumption, BoundAssumption
<1>1. CASE Cancel
  BY <1>1 DEF TypeOK, Cancel, callerVars, channelVars, collectVars
<1>2. CASE TickerFire
  <2>1. clock' \in Tick /\ tickC' \in Tick
    BY <1>2 DEF TypeOK, TickerFire, Tick
  <2> QED BY <1>2, <2>1 DEF TypeOK, TickerFire, callerVars, channelVars, collectVars
<1>3. CASE Dispatch
  <2>1. jobs' \in Seq(Tick) /\ Len(jobs') <= Concurrency
    BY <1>3, AppendValues DEF TypeOK, Dispatch, TakeTick
  <2>2. tickC' \in Tick /\ taken' \in SUBSET Tick
    BY <1>3 DEF TypeOK, Dispatch, TakeTick, Tick
  <2> QED BY <1>3, <2>1, <2>2 DEF TypeOK, Dispatch, envVars, collectVars
<1>4. CASE Saturate
  <2>1. tickC' \in Tick /\ taken' \in SUBSET Tick /\ now' \in Tick
    BY <1>4 DEF TypeOK, Saturate, TakeTick, Tick
  <2> QED BY <1>4, <2>1 DEF TypeOK, Saturate, envVars, channelVars, collectVars
<1>5. CASE RecordSaturated
  <2>1. [at |-> now, outcome |-> "saturated"] \in Sample
    BY DEF TypeOK, Sample, Outcomes
  <2>2. results' \in Seq(Sample) /\ Len(results') <= Concurrency
    BY <1>5, <2>1, AppendValues DEF TypeOK, RecordSaturated
  <2>3. now' \in Tick
    BY <1>5 DEF RecordSaturated, Tick
  <2> QED BY <1>5, <2>2, <2>3 DEF TypeOK, RecordSaturated, envVars, collectVars
<1>6. CASE Stop
  BY <1>6 DEF TypeOK, Stop, envVars, collectVars
<1>7. CASE WorkersDone
  BY <1>7 DEF TypeOK, WorkersDone, envVars, collectVars
<1>8. CASE Return
  BY <1>8 DEF TypeOK, Return, envVars, channelVars, collectVars
<1>9. ASSUME NEW w \in Workers, Receive(w) PROVE TypeOK'
  <2>1. jobs' \in Seq(Tick) /\ Len(jobs') <= Concurrency /\ Head(jobs) \in Tick
    BY <1>9, TailValues DEF TypeOK, Receive
  <2>2. worker' \in [Workers -> WorkerState]
    BY <1>9, <2>1 DEF TypeOK, Receive, WorkerState, Outcomes
  <2> QED BY <1>9, <2>1, <2>2 DEF TypeOK, Receive, envVars, callerVars, collectVars
<1>10. ASSUME NEW w \in Workers, Finish(w) PROVE TypeOK'
  <2>1. PICK o \in Outcomes :
          worker' = [worker EXCEPT ![w] = [st |-> "sending", at |-> worker[w].at, outcome |-> o]]
    BY <1>10 DEF Finish, Outcomes
  <2>2. worker[w].at \in Tick
    BY <1>10, WorkerFields DEF TypeOK, Finish
  <2>3. worker' \in [Workers -> WorkerState]
    BY <2>1, <2>2 DEF TypeOK, WorkerState
  <2> QED BY <1>10, <2>3 DEF TypeOK, Finish, envVars, callerVars, channelVars, collectVars
<1>11. ASSUME NEW w \in Workers, Send(w) PROVE TypeOK'
  <2>1. [at |-> worker[w].at, outcome |-> worker[w].outcome] \in Sample
    BY <1>11, WorkerFields DEF TypeOK, Send, Sample
  <2>2. results' \in Seq(Sample) /\ Len(results') <= Concurrency
    BY <1>11, <2>1, AppendValues DEF TypeOK, Send
  <2>3. worker' \in [Workers -> WorkerState]
    BY <1>11 DEF TypeOK, Send, WorkerState
  <2> QED BY <1>11, <2>2, <2>3 DEF TypeOK, Send, envVars, callerVars, collectVars
<1>12. ASSUME NEW w \in Workers, Exit(w) PROVE TypeOK'
  <2>1. worker' \in [Workers -> WorkerState]
    BY <1>12 DEF TypeOK, Exit, WorkerState
  <2> QED BY <1>12, <2>1 DEF TypeOK, Exit, envVars, callerVars, channelVars, collectVars
<1>13. CASE Collect
  <2>1. results' \in Seq(Sample) /\ Len(results') <= Concurrency /\ Head(results) \in Sample
    BY <1>13, TailValues DEF TypeOK, Collect
  <2>2. samples' \in Seq(Sample)
    BY <1>13, <2>1, AppendValues DEF TypeOK, Collect
  <2> QED BY <1>13, <2>1, <2>2 DEF TypeOK, Collect, envVars, callerVars
<1>14. CASE CollectorDone
  BY <1>14 DEF TypeOK, CollectorDone, envVars, callerVars, channelVars
<1>15. CASE UNCHANGED vars
  BY <1>15 DEF TypeOK, vars, envVars, callerVars, channelVars, collectVars
<1> QED
  BY <1>1, <1>2, <1>3, <1>4, <1>5, <1>6, <1>7, <1>8, <1>9, <1>10, <1>11, <1>12,
     <1>13, <1>14, <1>15
  DEF Next, Caller, Worker, Collector, Terminated

\* Every behaviour keeps every variable in its range, and no channel ever
\* holds more than its buffer.
THEOREM TypeCorrect == Spec => []TypeOK
BY InitTypeOK, StepTypeOK, PTL DEF Spec

-----------------------------------------------------------------------------
(***************************************************************************)
(* The shutdown: which channel is closed when, and who is gone by then.    *)
(* NoSendAfterClose is not inductive by itself: that close(results) finds  *)
(* no sender rests on Wait, which rests on every worker having left only   *)
(* because jobs was closed and empty.                                      *)
(***************************************************************************)
ShutdownInv ==
  /\ jobsClosed <=> pc \in {"waiting", "draining", "returned"}
  /\ resultsClosed <=> pc \in {"draining", "returned"}
  /\ \A w \in Workers : worker[w] = Done => jobsClosed /\ jobs = <<>>
  /\ resultsClosed => \A w \in Workers : worker[w] = Done
  /\ collectorDone => resultsClosed /\ results = <<>>
  /\ pc = "returned" => collectorDone

LEMMA InitShutdown == Init => ShutdownInv
BY DEF Init, ShutdownInv, Idle, Done

LEMMA StepShutdown == TypeOK /\ ShutdownInv /\ [Next]_vars => ShutdownInv'
<1> SUFFICES ASSUME TypeOK, ShutdownInv, [Next]_vars PROVE ShutdownInv'
  OBVIOUS
<1> USE DEF ShutdownInv
<1>1. CASE Cancel
  BY <1>1 DEF Cancel, callerVars, channelVars, collectVars
<1>2. CASE TickerFire
  BY <1>2 DEF TickerFire, callerVars, channelVars, collectVars
<1>3. CASE Dispatch
  BY <1>3 DEF Dispatch, TakeTick, collectVars
<1>4. CASE Saturate
  BY <1>4 DEF Saturate, TakeTick, channelVars, collectVars
<1>5. CASE RecordSaturated
  BY <1>5 DEF RecordSaturated, collectVars
<1>6. CASE Stop
  BY <1>6 DEF Stop, collectVars
<1>7. CASE WorkersDone
  BY <1>7 DEF WorkersDone, collectVars
<1>8. CASE Return
  BY <1>8 DEF Return, channelVars, collectVars
<1>9. ASSUME NEW w \in Workers, Receive(w) PROVE ShutdownInv'
  <2>1. jobs # <<>> /\ \A v \in Workers : worker[v] # Done
    BY <1>9 DEF Receive
  <2>2. \A v \in Workers : worker'[v] # Done
    BY <1>9, <2>1 DEF Receive, Done, TypeOK
  <2>3. ~resultsClosed
    BY <2>1, PoolNotEmpty
  <2> QED BY <1>9, <2>2, <2>3 DEF Receive, callerVars, collectVars
<1>10. ASSUME NEW w \in Workers, Finish(w) PROVE ShutdownInv'
  <2>1. worker[w] # Done
    BY <1>10 DEF Finish, Done
  <2>2. \A v \in Workers : worker'[v] = Done <=> worker[v] = Done
    BY <1>10, <2>1 DEF Finish, Done, TypeOK
  <2> QED BY <1>10, <2>2 DEF Finish, callerVars, channelVars, collectVars
<1>11. ASSUME NEW w \in Workers, Send(w) PROVE ShutdownInv'
  <2>1. worker[w] # Done
    BY <1>11 DEF Send, Done
  <2>2. \A v \in Workers : worker'[v] = Done <=> worker[v] = Done
    BY <1>11, <2>1 DEF Send, Idle, Done, TypeOK
  <2>3. ~resultsClosed
    BY <2>1
  <2> QED BY <1>11, <2>2, <2>3 DEF Send, callerVars, collectVars
<1>12. ASSUME NEW w \in Workers, Exit(w) PROVE ShutdownInv'
  <2>1. \A v \in Workers : worker'[v] = Done <=> worker[v] = Done \/ v = w
    BY <1>12 DEF Exit, TypeOK
  <2> QED BY <1>12, <2>1 DEF Exit, callerVars, channelVars, collectVars
<1>13. CASE Collect
  BY <1>13 DEF Collect, callerVars
<1>14. CASE CollectorDone
  BY <1>14 DEF CollectorDone, callerVars, channelVars
<1>15. CASE UNCHANGED vars
  BY <1>15 DEF vars, callerVars, channelVars, collectVars
<1> QED
  BY <1>1, <1>2, <1>3, <1>4, <1>5, <1>6, <1>7, <1>8, <1>9, <1>10, <1>11, <1>12,
     <1>13, <1>14, <1>15
  DEF Next, Caller, Worker, Collector, Terminated

LEMMA ShutdownAlways == Spec => []ShutdownInv
BY InitShutdown, StepShutdown, TypeCorrect, PTL DEF Spec

\* No goroutine of a run ever sends on a channel that is closed, whatever the
\* size of the pool and wherever the cancellation falls.
THEOREM NeverSendsAfterClose == Spec => []NoSendAfterClose
<1>1. ShutdownInv => NoSendAfterClose
  <2> SUFFICES ASSUME ShutdownInv PROVE NoSendAfterClose
    OBVIOUS
  <2>1. resultsClosed => \A w \in Workers : worker[w].st \notin {"inflight", "sending"}
    BY DEF ShutdownInv, Done
  <2>2. resultsClosed => jobs = <<>>
    BY PoolNotEmpty DEF ShutdownInv
  <2> QED BY <2>1, <2>2 DEF ShutdownInv, NoSendAfterClose
<1> QED BY <1>1, ShutdownAlways, PTL

\* The slice Run has returned is never appended to again.
THEOREM SamplesAreFinal == Spec => ReturnedSamplesAreFinal
<1>1. ShutdownInv /\ [Next]_vars => [pc = "returned" => UNCHANGED samples]_vars
  <2> SUFFICES ASSUME ShutdownInv, [Next]_vars, pc = "returned" PROVE UNCHANGED samples
    OBVIOUS
  <2>1. ~Collect
    BY DEF ShutdownInv, Collect
  <2> QED
    BY <2>1
    DEF Next, Caller, Worker, Collector, Terminated, Cancel, TickerFire, Dispatch, Saturate,
        RecordSaturated, Stop, WorkersDone, Return, Receive, Finish, Send, Exit,
        CollectorDone, vars, collectVars
<1> QED BY <1>1, ShutdownAlways, PTL DEF Spec, ReturnedSamplesAreFinal

-----------------------------------------------------------------------------
(***************************************************************************)
(* The accounting: every step moves at most one tick from one place to     *)
(* another.  A tick is new when it is taken because the ticker's channel   *)
(* only ever holds a firing later than every tick taken before.            *)
(***************************************************************************)
TicksAreNew == /\ tickC <= clock
               /\ \A u \in taken : u <= clock
               /\ tickC # 0 => \A u \in taken : u < tickC

PoolDistinct == \A v, w \in Workers : Busy(v) /\ Busy(w) /\ worker[v].at = worker[w].at => v = w

AccountInv == EveryTickAccountedFor /\ TicksAreNew

LEMMA Places ==
  /\ Queued = Values(jobs) /\ Emitted = Ats(results) /\ Recorded = Ats(samples)
  /\ NoDuplicate <=>
       /\ Distinct(jobs) /\ PoolDistinct /\ DistinctAt(results) /\ DistinctAt(samples)
       /\ Offered \intersect (Queued \union Probing \union Emitted \union Recorded) = {}
       /\ Queued \intersect (Probing \union Emitted \union Recorded) = {}
       /\ Probing \intersect (Emitted \union Recorded) = {}
       /\ Emitted \intersect Recorded = {}
BY DEF Queued, Emitted, Recorded, Values, Ats, NoDuplicate, Distinct, DistinctAt, PoolDistinct

\* A step that leaves the jobs, the pool, the results and the samples alone
\* leaves their ticks alone.
LEMMA PlacesUnchanged ==
  /\ UNCHANGED jobs => UNCHANGED Queued /\ (Distinct(jobs)' <=> Distinct(jobs))
  /\ UNCHANGED worker => UNCHANGED Probing /\ (PoolDistinct' <=> PoolDistinct)
  /\ UNCHANGED results => UNCHANGED Emitted /\ (DistinctAt(results)' <=> DistinctAt(results))
  /\ UNCHANGED samples => UNCHANGED Recorded /\ (DistinctAt(samples)' <=> DistinctAt(samples))
  /\ UNCHANGED <<pc, now>> => UNCHANGED Offered
BY DEF Queued, Probing, Busy, Emitted, Recorded, Offered, Distinct, DistinctAt, PoolDistinct

\* A worker that picks up a tick nobody in the pool holds adds it to the pool.
LEMMA PoolTakes ==
  ASSUME NEW w \in Workers, ~Busy(w), Busy(w)',
         \A v \in Workers \ {w} : worker'[v] = worker[v],
         PoolDistinct, worker'[w].at \notin Probing
  PROVE  Probing' = Probing \union {worker'[w].at} /\ PoolDistinct'
<1>1. \A v \in Workers \ {w} : Busy(v)' <=> Busy(v)
  BY DEF Busy
<1>2. Probing' = Probing \union {worker'[w].at}
  BY <1>1 DEF Probing
<1>3. PoolDistinct'
  BY <1>1 DEF PoolDistinct, Probing
<1> QED BY <1>2, <1>3

\* A busy worker that becomes idle takes its tick, and no other, from the pool.
LEMMA PoolGives ==
  ASSUME TypeOK, NEW w \in Workers, Busy(w), worker' = [worker EXCEPT ![w] = Idle],
         PoolDistinct
  PROVE  /\ Probing = Probing' \union {worker[w].at}
         /\ worker[w].at \notin Probing'
         /\ PoolDistinct'
<1>1. /\ worker'[w] = Idle /\ ~Busy(w)'
      /\ \A v \in Workers \ {w} : worker'[v] = worker[v] /\ (Busy(v)' <=> Busy(v))
  BY DEF TypeOK, Busy, Idle
<1>2. Probing = Probing' \union {worker[w].at}
  BY <1>1 DEF Probing
<1>3. worker[w].at \notin Probing'
  BY <1>1 DEF Probing, PoolDistinct
<1>4. PoolDistinct'
  BY <1>1 DEF PoolDistinct
<1> QED BY <1>2, <1>3, <1>4

\* A worker that changes state without changing what it holds changes nothing.
LEMMA PoolKeeps ==
  ASSUME TypeOK, NEW w \in Workers, NEW r, worker' = [worker EXCEPT ![w] = r],
         \/ Busy(w) /\ r.st \in {"inflight", "sending"} /\ r.at = worker[w].at
         \/ ~Busy(w) /\ r.st \notin {"inflight", "sending"}
  PROVE  Probing' = Probing /\ (PoolDistinct' <=> PoolDistinct)
<1>1. /\ worker'[w] = r /\ (Busy(w)' <=> Busy(w)) /\ (Busy(w) => r.at = worker[w].at)
      /\ \A v \in Workers \ {w} : worker'[v] = worker[v] /\ (Busy(v)' <=> Busy(v))
  BY DEF TypeOK, Busy
<1>2. \A v \in Workers : (Busy(v)' <=> Busy(v)) /\ (Busy(v) => worker'[v].at = worker[v].at)
  BY <1>1
<1>3. Probing' = Probing
  BY <1>2 DEF Probing
<1>4. PoolDistinct' <=> PoolDistinct
  BY <1>2 DEF PoolDistinct
<1> QED BY <1>3, <1>4

LEMMA InitAccount == Init => AccountInv
<1> SUFFICES ASSUME Init PROVE AccountInv
  OBVIOUS
<1>1. TicksAreNew
  BY DEF Init, TicksAreNew
<1>2. Offered = {} /\ Queued = {} /\ Probing = {} /\ Emitted = {} /\ Recorded = {}
  BY DEF Init, Offered, Queued, Probing, Busy, Idle, Emitted, Recorded
<1>3. Distinct(jobs) /\ PoolDistinct /\ DistinctAt(results) /\ DistinctAt(samples)
  BY DEF Init, Distinct, PoolDistinct, DistinctAt, Busy, Idle
<1>4. taken = {}
  BY DEF Init
<1> QED BY <1>1, <1>2, <1>3, <1>4, Places DEF AccountInv, EveryTickAccountedFor

LEMMA StepAccount == TypeOK /\ AccountInv /\ [Next]_vars => AccountInv'
<1> SUFFICES ASSUME TypeOK, AccountInv, [Next]_vars PROVE AccountInv'
  OBVIOUS
<1>t. /\ clock \in Nat /\ tickC \in Nat /\ now \in Nat /\ taken \subseteq Nat
      /\ jobs \in Seq(Tick) /\ results \in Seq(Sample) /\ samples \in Seq(Sample)
  BY DEF TypeOK, Tick
<1>a. /\ taken = Offered \union Queued \union Probing \union Emitted \union Recorded
      /\ NoDuplicate
  BY DEF AccountInv, EveryTickAccountedFor
<1>n. TicksAreNew
  BY DEF AccountInv
<1>q. SUFFICES EveryTickAccountedFor' /\ TicksAreNew'
  BY DEF AccountInv
<1>p. /\ Queued' = Values(jobs') /\ Emitted' = Ats(results') /\ Recorded' = Ats(samples')
      /\ NoDuplicate' <=>
           /\ Distinct(jobs') /\ PoolDistinct' /\ DistinctAt(results') /\ DistinctAt(samples')
           /\ Offered' \intersect (Queued' \union Probing' \union Emitted' \union Recorded') = {}
           /\ Queued' \intersect (Probing' \union Emitted' \union Recorded') = {}
           /\ Probing' \intersect (Emitted' \union Recorded') = {}
           /\ Emitted' \intersect Recorded' = {}
  BY DEF Queued, Emitted, Recorded, Values, Ats, NoDuplicate, Distinct, DistinctAt, PoolDistinct
\* No step but Dispatch and Saturate takes a tick, and only TickerFire makes one.
<1>k. ASSUME UNCHANGED <<clock, tickC, taken>> PROVE TicksAreNew'
  BY <1>k, <1>n DEF TicksAreNew
<1>s. ASSUME UNCHANGED <<taken, pc, now, jobs, worker, results, samples>>
      PROVE  EveryTickAccountedFor'
  BY <1>a, <1>p, <1>s, Places, PlacesUnchanged DEF EveryTickAccountedFor
<1>1. CASE Cancel
  BY <1>1, <1>k, <1>s DEF Cancel, callerVars, channelVars, collectVars
<1>2. CASE TickerFire
  <2>1. TicksAreNew'
    BY <1>2, <1>t, <1>n DEF TickerFire, TicksAreNew, callerVars
  <2> QED BY <1>2, <2>1, <1>s DEF TickerFire, callerVars, channelVars, collectVars
<1>x. ASSUME TakeTick, UNCHANGED clock PROVE TicksAreNew' /\ tickC \notin taken /\ Offered = {}
  BY <1>x, <1>t, <1>n DEF TakeTick, TicksAreNew, Offered
<1>3. CASE Dispatch
  <2>1. TicksAreNew' /\ tickC \notin taken /\ tickC \in Tick
    BY <1>3, <1>x DEF Dispatch, envVars, TypeOK
  <2>2. /\ Queued' = Queued \union {tickC}
        /\ Distinct(jobs) /\ tickC \notin Queued => Distinct(jobs')
    BY <1>3, <1>p, <1>t, <2>1, Places, AppendValues DEF Dispatch
  <2>3. UNCHANGED <<pc, now, worker, results, samples>> /\ taken' = taken \union {tickC}
    BY <1>3 DEF Dispatch, TakeTick, collectVars
  <2> QED BY <1>a, <1>p, <2>1, <2>2, <2>3, Places, PlacesUnchanged DEF EveryTickAccountedFor
<1>4. CASE Saturate
  <2>1. TicksAreNew' /\ tickC \notin taken /\ Offered = {}
    BY <1>4, <1>x DEF Saturate, envVars
  <2>2. Offered' = {tickC}
    BY <1>4 DEF Saturate, Offered
  <2>3. UNCHANGED <<jobs, worker, results, samples>> /\ taken' = taken \union {tickC}
    BY <1>4 DEF Saturate, TakeTick, channelVars, collectVars
  <2> QED BY <1>a, <1>p, <2>1, <2>2, <2>3, Places, PlacesUnchanged DEF EveryTickAccountedFor
<1>5. CASE RecordSaturated
  <2> DEFINE s == [at |-> now, outcome |-> "saturated"]
  <2>1. s \in Sample /\ s.at = now
    BY DEF TypeOK, Sample, Outcomes
  <2>2. Offered = {now} /\ Offered' = {}
    BY <1>5 DEF RecordSaturated, Offered
  <2>3. /\ Emitted' = Emitted \union {now}
        /\ DistinctAt(results) /\ now \notin Emitted => DistinctAt(results')
    BY <1>5, <1>p, <1>t, <2>1, Places, AppendValues DEF RecordSaturated
  <2>4. UNCHANGED <<clock, tickC, taken, jobs, worker, samples>>
    BY <1>5 DEF RecordSaturated, envVars, collectVars
  <2>5. TicksAreNew'
    BY <2>4, <1>k
  <2> QED BY <1>a, <1>p, <2>2, <2>3, <2>4, <2>5, Places, PlacesUnchanged DEF EveryTickAccountedFor
<1>u. ASSUME UNCHANGED Offered, UNCHANGED <<taken, jobs, worker, results, samples>>
      PROVE  EveryTickAccountedFor'
  BY <1>a, <1>p, <1>u, Places, PlacesUnchanged DEF EveryTickAccountedFor
<1>6. CASE Stop
  BY <1>6, <1>k, <1>u DEF Stop, Offered, envVars, collectVars
<1>7. CASE WorkersDone
  BY <1>7, <1>k, <1>u DEF WorkersDone, Offered, envVars, collectVars
<1>8. CASE Return
  BY <1>8, <1>k, <1>u DEF Return, Offered, envVars, channelVars, collectVars
<1>9. ASSUME NEW w \in Workers, Receive(w) PROVE EveryTickAccountedFor' /\ TicksAreNew'
  <2> DEFINE h == Head(jobs)
  <2>1. /\ Queued = Queued' \union {h}
        /\ Distinct(jobs) => Distinct(jobs') /\ h \notin Queued'
    BY <1>9, <1>p, <1>t, Places, TailValues DEF Receive
  <2>2. worker[w] = Idle /\ PoolDistinct /\ h \notin Probing
    BY <1>9, <1>a, <2>1, Places DEF Receive
  <2>3. Probing' = Probing \union {h} /\ PoolDistinct'
    <3>1. worker'[w].at = h /\ worker'[w].st \in {"inflight", "sending"}
      BY <1>9 DEF Receive, TypeOK
    <3>2. \A v \in Workers \ {w} : worker'[v] = worker[v]
      BY <1>9 DEF Receive, TypeOK
    <3>3. ~Busy(w) /\ Busy(w)'
      BY <2>2, <3>1 DEF Busy, Idle
    <3> QED BY <2>2, <3>1, <3>2, <3>3, PoolTakes
  <2>4. UNCHANGED <<clock, tickC, taken, pc, now, results, samples>>
    BY <1>9 DEF Receive, envVars, callerVars, collectVars
  <2>5. TicksAreNew'
    BY <2>4, <1>k
  <2> QED BY <1>a, <1>p, <2>1, <2>3, <2>4, <2>5, Places, PlacesUnchanged DEF EveryTickAccountedFor
<1>10. ASSUME NEW w \in Workers, Finish(w) PROVE EveryTickAccountedFor' /\ TicksAreNew'
  <2>1. PICK o : worker' = [worker EXCEPT ![w] =
                              [st |-> "sending", at |-> worker[w].at, outcome |-> o]]
    BY <1>10 DEF Finish
  <2>2. Busy(w)
    BY <1>10 DEF Finish, Busy
  <2>3. Probing' = Probing /\ (PoolDistinct' <=> PoolDistinct)
    BY <2>1, <2>2, PoolKeeps
  <2>4. UNCHANGED <<clock, tickC, taken, pc, now, jobs, results, samples>>
    BY <1>10 DEF Finish, envVars, callerVars, channelVars, collectVars
  <2>5. TicksAreNew'
    BY <2>4, <1>k
  <2> QED BY <1>a, <1>p, <2>3, <2>4, <2>5, Places, PlacesUnchanged DEF EveryTickAccountedFor
<1>11. ASSUME NEW w \in Workers, Send(w) PROVE EveryTickAccountedFor' /\ TicksAreNew'
  <2> DEFINE s == [at |-> worker[w].at, outcome |-> worker[w].outcome]
  <2>1. s \in Sample /\ s.at = worker[w].at /\ Busy(w)
    BY <1>11, WorkerFields DEF TypeOK, Send, Sample, Busy
  <2>2. Probing = Probing' \union {s.at} /\ s.at \notin Probing' /\ PoolDistinct'
    BY <1>11, <1>a, <2>1, Places, PoolGives DEF Send
  <2>3. /\ Emitted' = Emitted \union {s.at}
        /\ DistinctAt(results) /\ s.at \notin Emitted => DistinctAt(results')
    BY <1>11, <1>p, <1>t, <2>1, Places, AppendValues DEF Send
  <2>4. UNCHANGED <<clock, tickC, taken, pc, now, jobs, samples>>
    BY <1>11 DEF Send, envVars, callerVars, collectVars
  <2>5. TicksAreNew'
    BY <2>4, <1>k
  <2> HIDE DEF s
  <2> QED BY <1>a, <1>p, <2>2, <2>3, <2>4, <2>5, Places, PlacesUnchanged DEF EveryTickAccountedFor
<1>12. ASSUME NEW w \in Workers, Exit(w) PROVE EveryTickAccountedFor' /\ TicksAreNew'
  <2>1. ~Busy(w) /\ Done.st \notin {"inflight", "sending"}
    BY <1>12 DEF Exit, Busy, Idle, Done
  <2>2. Probing' = Probing /\ (PoolDistinct' <=> PoolDistinct)
    BY <1>12, <2>1, PoolKeeps DEF Exit
  <2>3. UNCHANGED <<clock, tickC, taken, pc, now, jobs, results, samples>>
    BY <1>12 DEF Exit, envVars, callerVars, channelVars, collectVars
  <2>4. TicksAreNew'
    BY <2>3, <1>k
  <2> QED BY <1>a, <1>p, <2>2, <2>3, <2>4, Places, PlacesUnchanged DEF EveryTickAccountedFor
<1>13. CASE Collect
  <2> DEFINE h == Head(results)
  <2>1. /\ h \in Sample /\ Emitted = Emitted' \union {h.at}
        /\ DistinctAt(results) => DistinctAt(results') /\ h.at \notin Emitted'
    BY <1>13, <1>p, <1>t, Places, TailValues DEF Collect
  <2>2. /\ Recorded' = Recorded \union {h.at}
        /\ DistinctAt(samples) /\ h.at \notin Recorded => DistinctAt(samples')
    BY <1>13, <1>p, <1>t, <2>1, Places, AppendValues DEF Collect
  <2>3. UNCHANGED <<clock, tickC, taken, pc, now, jobs, worker>>
    BY <1>13 DEF Collect, envVars, callerVars
  <2>4. TicksAreNew'
    BY <2>3, <1>k
  <2> HIDE DEF h
  <2> QED BY <1>a, <1>p, <2>1, <2>2, <2>3, <2>4, Places, PlacesUnchanged DEF EveryTickAccountedFor
<1>14. CASE CollectorDone
  BY <1>14, <1>k, <1>s DEF CollectorDone, envVars, callerVars, channelVars
<1>15. CASE UNCHANGED vars
  BY <1>15, <1>k, <1>s DEF vars, envVars, callerVars, channelVars, collectVars
<1> QED
  BY <1>1, <1>2, <1>3, <1>4, <1>5, <1>6, <1>7, <1>8, <1>9, <1>10, <1>11, <1>12,
     <1>13, <1>14, <1>15
  DEF Next, Caller, Worker, Collector, Terminated

LEMMA AccountAlways == Spec => []AccountInv
BY InitAccount, StepAccount, TypeCorrect, PTL DEF Spec

\* Whatever the number of workers and of ticks, the pipeline never loses a tick
\* it took and never records one twice.
THEOREM TicksAreAccountedFor == Spec => []EveryTickAccountedFor
<1>1. AccountInv => EveryTickAccountedFor
  BY DEF AccountInv
<1> QED BY <1>1, AccountAlways, PTL

-----------------------------------------------------------------------------
(***************************************************************************)
(* The refinement: the steps that take a tick are Take, the collector's    *)
(* append is Record, close(jobs) is StopTaking, the return is HandOver, and *)
(* everything else stutters.                                               *)
(***************************************************************************)
LEMMA InitRefines == Init => Promise!RunInit
BY DEF Init, Promise!RunInit, Phase

\* A run returns only when every place but the samples is empty.
LEMMA EmptyAtTheEnd ==
  ASSUME ShutdownInv, AccountInv, pc = "draining", collectorDone
  PROVE  Recorded = taken
<1>1. \A w \in Workers : worker[w] = Done
  BY DEF ShutdownInv
<1>2. jobs = <<>> /\ results = <<>>
  BY <1>1, PoolNotEmpty DEF ShutdownInv
<1>3. Offered = {} /\ Queued = {} /\ Emitted = {}
  BY <1>2 DEF Offered, Queued, Emitted
<1>4. Probing = {}
  BY <1>1 DEF Probing, Busy, Done
<1> QED BY <1>3, <1>4 DEF AccountInv, EveryTickAccountedFor

LEMMA StepRefines ==
  TypeOK /\ ShutdownInv /\ AccountInv /\ [Next]_vars => [Promise!RunNext]_(Promise!runVars)
<1> SUFFICES ASSUME TypeOK, ShutdownInv, AccountInv, [Next]_vars
             PROVE  [Promise!RunNext]_(Promise!runVars)
  OBVIOUS
<1>v. Promise!runVars = <<taken, samples, Phase>>
  BY DEF Promise!runVars
<1>s. ASSUME UNCHANGED <<taken, samples, Phase>> PROVE UNCHANGED Promise!runVars
  BY <1>s DEF Promise!runVars
<1>1. CASE Cancel
  BY <1>1, <1>s DEF Cancel, callerVars, collectVars, Phase
<1>2. CASE TickerFire
  BY <1>2, <1>s DEF TickerFire, callerVars, collectVars, Phase
<1>t. ASSUME TakeTick, UNCHANGED samples, Phase' = "running" PROVE Promise!Take
  <2>1. tickC \in Tick /\ \A u \in taken : u < tickC
    BY <1>t DEF TakeTick, TypeOK, AccountInv, TicksAreNew
  <2>2. Phase = "running"
    BY <1>t DEF TakeTick, Phase
  <2> QED BY <1>t, <2>1, <2>2 DEF TakeTick, Promise!Take
<1>3. CASE Dispatch
  BY <1>3, <1>t DEF Dispatch, TakeTick, collectVars, Phase, Promise!RunNext
<1>4. CASE Saturate
  BY <1>4, <1>t DEF Saturate, TakeTick, collectVars, Phase, Promise!RunNext
<1>5. CASE RecordSaturated
  BY <1>5, <1>s DEF RecordSaturated, collectVars, Phase
<1>6. CASE Stop
  <2>1. Phase = "running" /\ Phase' = "draining" /\ UNCHANGED <<taken, samples>>
    BY <1>6 DEF Stop, collectVars, Phase
  <2> QED BY <2>1 DEF Promise!StopTaking, Promise!RunNext
<1>7. CASE WorkersDone
  BY <1>7, <1>s DEF WorkersDone, collectVars, Phase
<1>8. CASE Return
  <2>1. Phase = "draining" /\ Phase' = "returned" /\ UNCHANGED <<taken, samples>>
    BY <1>8 DEF Return, collectVars, Phase
  <2>2. Promise!Recorded = taken
    BY <1>8, EmptyAtTheEnd DEF Return, Recorded, Promise!Recorded
  <2> QED BY <2>1, <2>2 DEF Promise!HandOver, Promise!RunNext
<1>9. ASSUME NEW w \in Workers, Worker(w) PROVE UNCHANGED Promise!runVars
  BY <1>9, <1>s DEF Worker, Receive, Finish, Send, Exit, callerVars, collectVars, Phase
<1>10. CASE Collect
  <2> DEFINE h == Head(results)
  <2>1. h \in Sample /\ h.at \in Emitted
    BY <1>10, TailValues, Places DEF TypeOK, Collect
  <2>2. h.at \in taken \ Recorded
    BY <2>1 DEF AccountInv, EveryTickAccountedFor, NoDuplicate
  <2>3. h = [at |-> h.at, outcome |-> h.outcome] /\ h.outcome \in Outcomes
    BY <2>1 DEF Sample
  <2>4. Phase # "returned" /\ UNCHANGED <<taken, Phase>>
    BY <1>10 DEF Collect, ShutdownInv, Phase, callerVars
  <2>5. samples' = Append(samples, [at |-> h.at, outcome |-> h.outcome])
    BY <1>10, <2>3 DEF Collect
  <2>6. Promise!Recorded = Recorded
    BY DEF Recorded, Promise!Recorded
  <2> HIDE DEF h
  <2> QED BY <2>2, <2>3, <2>4, <2>5, <2>6 DEF Promise!Record, Promise!RunNext
<1>11. CASE CollectorDone
  BY <1>11, <1>s DEF CollectorDone, callerVars, Phase
<1>12. CASE UNCHANGED vars
  BY <1>12, <1>s DEF vars, callerVars, collectVars, Phase
<1> QED
  BY <1>1, <1>2, <1>3, <1>4, <1>5, <1>6, <1>7, <1>8, <1>9, <1>10, <1>11, <1>12
  DEF Next, Caller, Collector, Terminated

\* probe.Run keeps its promise: ticks in order, one sample for each, and a
\* return with all of them and with nothing left to come.
THEOREM KeepsPromise == Spec => ImplementsLoadRun
<1>1. Spec => [](TypeOK /\ ShutdownInv /\ AccountInv)
  BY TypeCorrect, ShutdownAlways, AccountAlways, PTL
<1> QED BY <1>1, InitRefines, StepRefines, PTL DEF Spec, ImplementsLoadRun, Promise!RunSpec
=============================================================================
