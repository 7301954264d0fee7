--------------------------- MODULE GeneratorProofs ---------------------------
(* Proofs about Generator, for every size of the pool and number of ticks. *)
EXTENDS Generator, TLAPS

Tally == [Outcomes -> Nat]

\* One more sample of an outcome.
LEMMA PutFacts ==
  ASSUME NEW f \in Tally, NEW o \in Outcomes
  PROVE  /\ Put(f, o) \in Tally
         /\ Put(f, o)[o] = f[o] + 1
         /\ \A x \in Outcomes : x # o => Put(f, o)[x] = f[x]
         /\ Total(Put(f, o)) = Total(f) + 1
<1>1. Put(f, o) \in Tally /\ Put(f, o)[o] = f[o] + 1 /\ \A x \in Outcomes : x # o => Put(f, o)[x] = f[x]
  BY DEF Put, Tally
<1>2. Total(Put(f, o)) = Total(f) + 1
  BY <1>1 DEF Total, Outcomes, Answer, Tally
<1> QED BY <1>1, <1>2

\* One less, if there is one.
LEMMA DropFacts ==
  ASSUME NEW f \in Tally, NEW o \in Outcomes, f[o] > 0
  PROVE  /\ Drop(f, o) \in Tally
         /\ Drop(f, o)[o] = f[o] - 1
         /\ \A x \in Outcomes : x # o => Drop(f, o)[x] = f[x]
         /\ Total(Drop(f, o)) = Total(f) - 1
<1>1. Drop(f, o)[o] = f[o] - 1 /\ \A x \in Outcomes : x # o => Drop(f, o)[x] = f[x]
  BY DEF Drop, Tally
<1>2. f[o] - 1 \in Nat
  BY DEF Tally
<1>3. Drop(f, o) \in Tally
  BY <1>2 DEF Drop, Tally
<1>4. Total(Drop(f, o)) = Total(f) - 1
  BY <1>1, <1>3 DEF Total, Outcomes, Answer, Tally
<1> QED BY <1>1, <1>3, <1>4

LEMMA TallyFacts ==
  ASSUME NEW f \in Tally
  PROVE  /\ f["ok"] \in Nat /\ f["fail"] \in Nat /\ f["aborted"] \in Nat /\ f["unsent"] \in Nat
         /\ f["saturated"] \in Nat
         /\ Total(f) \in Nat
         /\ \A o \in Outcomes : f[o] <= Total(f)
BY DEF Tally, Total, Outcomes, Answer

LEMMA NoneFacts == None \in Tally /\ Total(None) = 0 /\ \A o \in Outcomes : None[o] = 0
BY DEF None, Tally, Total, Outcomes, Answer

-----------------------------------------------------------------------------
LEMMA InitTypeOK == Init => TypeOK
<1> SUFFICES ASSUME Init PROVE TypeOK
  OBVIOUS
<1>1. sendable \in BOOLEAN /\ expired \in BOOLEAN /\ signalled \in BOOLEAN /\ ready \in BOOLEAN
  BY DEF Init
<1>2. jobsClosed \in BOOLEAN /\ resultsClosed \in BOOLEAN /\ collectorDone \in BOOLEAN
  BY DEF Init
<1>3. /\ pc = "select" /\ fired = 0 /\ saturated = 0 /\ ticks = 0 /\ jobs = 0 /\ sent = 0 /\ late = 0
      /\ idle = Concurrency /\ inflight = 0 /\ exited = 0
      /\ results = None /\ samples = None /\ sending = None
  BY DEF Init
<1> QED BY <1>1, <1>2, <1>3, NoneFacts, GeneratorAssumption DEF TypeOK, Tally

LEMMA StepTypeOK == TypeOK /\ [Next]_vars => TypeOK'
<1> SUFFICES ASSUME TypeOK, [Next]_vars PROVE TypeOK'
  OBVIOUS
<1> USE GeneratorAssumption
<1>0. sending \in Tally /\ results \in Tally /\ samples \in Tally
  BY DEF TypeOK, Tally
<1>a. Total(sending) \in Nat /\ Total(results) \in Nat /\ Total(samples) \in Nat
  BY <1>0, TallyFacts
<1>1. CASE Expire \/ Signal \/ TickerFire
  <2>1. UNCHANGED <<sendable, pc, saturated, ticks, jobs, workerVars, results, samples, closeVars>>
    BY <1>1 DEF Expire, Signal, TickerFire, callerVars
  <2>2. expired' \in BOOLEAN /\ signalled' \in BOOLEAN /\ ready' \in BOOLEAN
    BY <1>1 DEF TypeOK, Expire, Signal, TickerFire
  <2>3. fired' \in Nat
    BY <1>1 DEF TypeOK, Expire, Signal, TickerFire
  <2> QED BY <2>1, <2>2, <2>3 DEF TypeOK, workerVars, closeVars
<1>2. CASE Dispatch
  <2>1. ready' \in BOOLEAN /\ ticks' = ticks + 1
    BY <1>2 DEF Dispatch, TakeTick
  <2> QED BY <2>1, <1>2 DEF TypeOK, Dispatch, envVars, workerVars, closeVars
<1>3. CASE Saturate
  <2>1. ready' \in BOOLEAN /\ ticks' = ticks + 1
    BY <1>3 DEF Saturate, TakeTick
  <2> QED BY <2>1, <1>3 DEF TypeOK, Saturate, envVars, workerVars, closeVars
<1>4. CASE RecordSaturated
  <2>1. results' \in Tally /\ Total(results') = Total(results) + 1
    BY <1>4, <1>0, PutFacts DEF RecordSaturated, Outcomes
  <2> QED BY <2>1, <1>4, <1>a DEF TypeOK, RecordSaturated, Tally, envVars, workerVars, closeVars
<1>5. CASE Stop \/ WorkersDone \/ Return
  BY <1>5 DEF TypeOK, Stop, WorkersDone, Return, envVars, workerVars, closeVars
<1>6. CASE Receive
  <2>0. idle > 0 /\ idle' = idle - 1 /\ jobs > 0 /\ jobs' = jobs - 1
    BY <1>6 DEF Receive
  <2>1. CASE sending' = Put(sending, "unsent") /\ UNCHANGED <<inflight, sent, late>>
    <3>1. sending' \in Tally /\ Total(sending') = Total(sending) + 1
      BY <2>1, <1>0, PutFacts DEF Outcomes
    <3> QED BY <2>0, <2>1, <3>1, <1>6, <1>a DEF TypeOK, Receive, Tally, envVars, callerVars, closeVars
  <2>2. CASE /\ inflight' = inflight + 1 /\ sent' = sent + 1 /\ late' \in {late, late + 1}
             /\ UNCHANGED sending
    BY <2>0, <2>2, <1>6, <1>a DEF TypeOK, Receive, envVars, callerVars, closeVars
  <2> QED BY <1>6, <2>1, <2>2 DEF Receive, BeginRequest
<1>7. CASE Finish
  <2>1. PICK o \in Outcomes : sending' = Put(sending, o)
    BY <1>7 DEF Finish, Outcomes
  <2>2. sending' \in Tally /\ Total(sending') = Total(sending) + 1
    BY <2>1, <1>0, PutFacts
  <2> QED BY <2>2, <1>7, <1>a DEF TypeOK, Finish, Tally, envVars, callerVars, closeVars
<1>8. CASE Sender
  <2>1. PICK o \in Outcomes : Send(o)
    BY <1>8 DEF Sender
  <2>2. sending' \in Tally /\ Total(sending') = Total(sending) - 1
    BY <2>1, <1>0, DropFacts DEF Send
  <2>3. results' \in Tally /\ Total(results') = Total(results) + 1
    BY <2>1, <1>0, PutFacts DEF Send
  <2> QED BY <2>1, <2>2, <2>3, <1>a, TallyFacts DEF TypeOK, Send, Tally, envVars, callerVars, closeVars
<1>9. CASE WorkerExit
  BY <1>9, <1>a DEF TypeOK, WorkerExit, envVars, callerVars, closeVars
<1>10. CASE Collector
  <2>1. CASE \E o \in Outcomes : Collect(o)
    <3>1. PICK o \in Outcomes : Collect(o)
      BY <2>1
    <3>2. results' \in Tally /\ Total(results') = Total(results) - 1
      BY <3>1, <1>0, DropFacts DEF Collect
    <3>3. samples' \in Tally
      BY <3>1, <1>0, PutFacts DEF Collect
    <3> QED BY <3>1, <3>2, <3>3, <1>a DEF TypeOK, Collect, Tally, envVars, callerVars, workerVars, closeVars
  <2>2. CASE CollectorDone
    BY <2>2 DEF TypeOK, CollectorDone, envVars, callerVars, workerVars
  <2> QED BY <2>1, <2>2, <1>10 DEF Collector
<1>11. CASE Terminated \/ UNCHANGED vars
  BY <1>11 DEF TypeOK, Terminated, vars, envVars, callerVars, workerVars, closeVars
<1> QED
  BY <1>1, <1>2, <1>3, <1>4, <1>5, <1>6, <1>7, <1>8, <1>9, <1>10, <1>11 DEF Next, Caller

\* Every variable stays in range, neither channel exceeds its buffer and no worker
\* is lost, whatever the size of the pool.
THEOREM GeneratorTypeCorrect == Spec => []TypeOK
<1>1. Init => TypeOK
  BY InitTypeOK
<1>2. TypeOK /\ [Next]_vars => TypeOK'
  BY StepTypeOK
<1> QED BY <1>1, <1>2, PTL DEF Spec

-----------------------------------------------------------------------------
(* Shutting down: who can still send, and what is left. *)

Open == {"select", "saturated"}

ShutInv ==
  /\ jobsClosed <=> pc \notin Open
  /\ resultsClosed <=> pc \in {"draining", "returned"}
  /\ exited > 0 => jobs = 0 /\ pc \notin Open
  /\ resultsClosed => exited = Concurrency
  /\ collectorDone => resultsClosed /\ Total(results) = 0
  /\ pc = "returned" => collectorDone

LEMMA StepShut == TypeOK /\ ShutInv /\ [Next]_vars => ShutInv'
<1> SUFFICES ASSUME TypeOK, ShutInv, [Next]_vars PROVE ShutInv'
  OBVIOUS
<1> USE GeneratorAssumption
<1>0. sending \in Tally /\ results \in Tally /\ samples \in Tally
  BY DEF TypeOK, Tally
<1>a. Total(sending) \in Nat /\ Total(results) \in Nat /\ Total(samples) \in Nat
  BY <1>0, TallyFacts
<1>1. CASE Expire \/ Signal \/ TickerFire
  BY <1>1 DEF ShutInv, Expire, Signal, TickerFire, callerVars, workerVars, closeVars
<1>2. CASE Dispatch \/ Saturate
  BY <1>2 DEF TypeOK, ShutInv, Open, Dispatch, Saturate, TakeTick, envVars, workerVars, closeVars
<1>3. CASE RecordSaturated
  BY <1>3 DEF ShutInv, Open, RecordSaturated, envVars, workerVars, closeVars
<1>4. CASE Stop
  BY <1>4 DEF TypeOK, ShutInv, Open, Stop, workerVars
<1>5. CASE WorkersDone \/ Return
  BY <1>5 DEF TypeOK, ShutInv, Open, WorkersDone, Return, workerVars, closeVars
<1>6. CASE Receive
  BY <1>6, <1>a DEF TypeOK, ShutInv, Receive, callerVars, closeVars
<1>7. CASE Finish
  BY <1>7 DEF ShutInv, Finish, callerVars, closeVars
<1>8. CASE Sender
  <2>1. PICK o \in Outcomes : Send(o)
    BY <1>8 DEF Sender
  <2>2. Total(sending) > 0
    BY <2>1, <1>0, TallyFacts DEF Send, Tally
  <2>3. ~resultsClosed
    BY <2>2, <1>a DEF TypeOK, ShutInv
  <2> QED BY <2>1, <2>3 DEF ShutInv, Send, callerVars, closeVars
<1>9. CASE WorkerExit
  BY <1>9, <1>a DEF TypeOK, ShutInv, WorkerExit, callerVars, closeVars
<1>10. CASE \E o \in Outcomes : Collect(o)
  BY <1>10 DEF ShutInv, Collect, callerVars, workerVars, closeVars
<1>11. CASE CollectorDone
  BY <1>11 DEF ShutInv, CollectorDone, callerVars, workerVars
<1>12. CASE Terminated \/ UNCHANGED vars
  BY <1>12 DEF ShutInv, Terminated, vars, callerVars, workerVars, closeVars
<1> QED
  BY <1>1, <1>2, <1>3, <1>4, <1>5, <1>6, <1>7, <1>8, <1>9, <1>10, <1>11, <1>12
     DEF Next, Caller, Collector

LEMMA ShutAlways == Spec => [](TypeOK /\ ShutInv)
<1>1. Init => TypeOK /\ ShutInv
  BY InitTypeOK, NoneFacts, GeneratorAssumption DEF Init, ShutInv, Open
<1>2. (TypeOK /\ ShutInv) /\ [Next]_vars => (TypeOK /\ ShutInv)'
  BY StepTypeOK, StepShut
<1> QED BY <1>1, <1>2, PTL DEF Spec

\* No goroutine that may still send finds its channel closed.
THEOREM GeneratorNeverSendsAfterClose == Spec => []NoSendAfterClose
<1>1. TypeOK /\ ShutInv => NoSendAfterClose
  <2> SUFFICES ASSUME TypeOK, ShutInv PROVE NoSendAfterClose
    OBVIOUS
  <2>1. Total(sending) \in Nat
    BY TallyFacts DEF TypeOK, Tally
  <2> QED BY <2>1, GeneratorAssumption DEF TypeOK, ShutInv, NoSendAfterClose, Open
<1> QED BY <1>1, ShutAlways, PTL

-----------------------------------------------------------------------------
(* Where the ticks are. *)

\* A tick is a job, a request, a sample on its way or at its end, or on the way to
\* being one.
TickInv ==
  ticks = jobs + inflight + Total(sending) + Total(results) + Total(samples)
            + (IF pc = "saturated" THEN 1 ELSE 0)

\* What was sent is in flight, answered or aborted.  What is aborted needs a signal, what
\* is not sent at all a signal or a target that cannot be asked.
SentInv ==
  /\ Seen("saturated") = saturated
  /\ sending["saturated"] = 0
  /\ sent = inflight + Seen("ok") + Seen("fail") + Seen("aborted")
  /\ ~signalled => Seen("aborted") = 0
  /\ ~signalled /\ sendable => Seen("unsent") = 0

\* What is sent late was queued, so the queue shrinks by as much.
LateInv == IF pc \in Open THEN late = 0 ELSE late + jobs <= Concurrency

CountInv == TickInv /\ SentInv /\ LateInv

LEMMA InitCount == Init => CountInv
<1> SUFFICES ASSUME Init PROVE CountInv
  OBVIOUS
<1>1. /\ pc = "select" /\ saturated = 0 /\ ticks = 0 /\ jobs = 0 /\ sent = 0 /\ late = 0 /\ inflight = 0
      /\ results = None /\ samples = None /\ sending = None
  BY DEF Init
<1> QED BY <1>1, NoneFacts DEF CountInv, TickInv, SentInv, LateInv, Seen, Open, Outcomes, Answer

LEMMA StepCount == TypeOK /\ CountInv /\ [Next]_vars => CountInv'
<1> SUFFICES ASSUME TypeOK, CountInv, [Next]_vars PROVE CountInv'
  OBVIOUS
<1> USE GeneratorAssumption
<1>0. sending \in Tally /\ results \in Tally /\ samples \in Tally
  BY DEF TypeOK, Tally
<1>a. Total(sending) \in Nat /\ Total(results) \in Nat /\ Total(samples) \in Nat
  BY <1>0, TallyFacts
<1>b. \A o \in Outcomes : sending[o] \in Nat /\ results[o] \in Nat /\ samples[o] \in Nat
  BY <1>0 DEF Tally
<1>c. /\ "ok" \in Outcomes /\ "fail" \in Outcomes /\ "aborted" \in Outcomes
      /\ "unsent" \in Outcomes /\ "saturated" \in Outcomes
  BY DEF Outcomes, Answer
<1>d. /\ jobs \in Nat /\ jobs <= Concurrency /\ inflight \in Nat /\ ticks \in Nat
      /\ saturated \in Nat /\ sent \in Nat /\ late \in Nat
  BY DEF TypeOK
<1>1. CASE Expire \/ Signal \/ TickerFire
  BY <1>1 DEF CountInv, TickInv, SentInv, LateInv, Seen, Open, Expire, Signal, TickerFire, callerVars, workerVars
<1>2. CASE Dispatch
  BY <1>2, <1>a, <1>d DEF CountInv, TickInv, SentInv, LateInv, Seen, Open, Dispatch, TakeTick, envVars, workerVars
<1>3. CASE Saturate
  BY <1>3, <1>a, <1>d DEF CountInv, TickInv, SentInv, LateInv, Seen, Open, Saturate, TakeTick, envVars, workerVars
<1>4. CASE RecordSaturated
  <2>1. /\ results'["saturated"] = results["saturated"] + 1
        /\ \A x \in Outcomes : x # "saturated" => results'[x] = results[x]
        /\ Total(results') = Total(results) + 1
    BY <1>4, <1>c, <1>0, PutFacts DEF RecordSaturated
  <2>2. TickInv'
    BY <2>1, <1>4, <1>a, <1>d DEF CountInv, TickInv, RecordSaturated, workerVars
  <2>3. SentInv'
    <3>1. /\ UNCHANGED <<sending, samples, inflight, sent, signalled, sendable>>
          /\ saturated' = saturated + 1
      BY <1>4 DEF RecordSaturated, workerVars, envVars
    <3>2. /\ Seen("saturated")' = Seen("saturated") + 1
          /\ \A x \in Outcomes : x # "saturated" => Seen(x)' = Seen(x)
      BY <2>1, <3>1, <1>b, <1>c DEF Seen
    <3> QED BY <3>1, <3>2, <1>c DEF CountInv, SentInv
  <2>4. LateInv'
    BY <1>4 DEF CountInv, LateInv, Open, RecordSaturated, workerVars
  <2> QED BY <2>2, <2>3, <2>4 DEF CountInv
<1>5. CASE Stop \/ WorkersDone \/ Return
  BY <1>5, <1>d DEF CountInv, TickInv, SentInv, LateInv, Seen, Open, Stop, WorkersDone, Return, workerVars, envVars
<1>6. CASE Receive
  <2>0. jobs' = jobs - 1 /\ jobs > 0 /\ UNCHANGED <<pc, ticks, saturated, results, samples, sendable, signalled>>
    BY <1>6 DEF Receive, callerVars, envVars
  <2>1. CASE /\ ~sendable \/ signalled
             /\ sending' = Put(sending, "unsent") /\ UNCHANGED <<inflight, sent, late>>
    <3>1. /\ sending'["unsent"] = sending["unsent"] + 1
          /\ \A x \in Outcomes : x # "unsent" => sending'[x] = sending[x]
          /\ Total(sending') = Total(sending) + 1
      BY <2>1, <1>c, <1>0, PutFacts
    <3>2. TickInv'
      BY <2>0, <2>1, <3>1, <1>a, <1>d DEF CountInv, TickInv
    <3>3. SentInv'
      BY <2>0, <2>1, <3>1, <1>b, <1>c, <1>d DEF CountInv, SentInv, Seen
    <3>4. LateInv'
      BY <2>0, <2>1, <1>d DEF CountInv, LateInv
    <3> QED BY <3>2, <3>3, <3>4 DEF CountInv
  <2>2. CASE /\ inflight' = inflight + 1 /\ sent' = sent + 1 /\ UNCHANGED sending
             /\ late' = IF pc \in Open THEN late ELSE late + 1
    <3>1. TickInv'
      BY <2>0, <2>2, <1>a, <1>d DEF CountInv, TickInv
    <3>2. SentInv'
      BY <2>0, <2>2, <1>b, <1>c, <1>d DEF CountInv, SentInv, Seen
    <3>3. LateInv'
      BY <2>0, <2>2, <1>d DEF CountInv, LateInv
    <3> QED BY <3>1, <3>2, <3>3 DEF CountInv
  <2> QED BY <1>6, <2>1, <2>2 DEF Receive, BeginRequest, RequestAborts, Open
<1>7. CASE Finish
  <2>1. PICK o \in {"ok", "fail", "aborted"} :
          sending' = Put(sending, o) /\ (o = "aborted" => signalled)
    BY <1>7 DEF Finish, Answer, RequestAborts
  <2>2. /\ sending'[o] = sending[o] + 1
        /\ \A x \in Outcomes : x # o => sending'[x] = sending[x]
        /\ Total(sending') = Total(sending) + 1
    <3>1. o \in Outcomes
      BY <1>c
    <3> QED BY <2>1, <3>1, <1>0, PutFacts
  <2>3. TickInv'
    BY <2>2, <1>7, <1>a, <1>d DEF CountInv, TickInv, Finish, callerVars
  <2>4. SentInv'
    <3>1. /\ UNCHANGED <<results, samples, saturated, sent, signalled, sendable>>
          /\ inflight' = inflight - 1
      BY <1>7 DEF Finish, callerVars, envVars
    <3>2. Seen(o)' = Seen(o) + 1 /\ \A x \in Outcomes : x # o => Seen(x)' = Seen(x)
      BY <2>2, <3>1, <1>b, <1>c DEF Seen
    <3>3. \A x \in Outcomes : Seen(x) \in Nat
      BY <1>b DEF Seen
    <3>4. /\ Seen("saturated")' = saturated' /\ sending'["saturated"] = 0
          /\ ~signalled' /\ sendable' => Seen("unsent")' = 0
      BY <2>2, <3>1, <3>2, <1>c DEF CountInv, SentInv
    <3>5. Seen("ok")' + Seen("fail")' + Seen("aborted")' = Seen("ok") + Seen("fail") + Seen("aborted") + 1
      BY <3>2, <3>3, <1>c
    <3>6. sent' = inflight' + Seen("ok")' + Seen("fail")' + Seen("aborted")'
      BY <3>1, <3>2, <3>3, <3>5, <1>c, <1>d DEF CountInv, SentInv
    <3>7. ~signalled' => Seen("aborted")' = 0
      BY <2>1, <3>1, <3>2, <1>c DEF CountInv, SentInv
    <3> QED BY <3>4, <3>6, <3>7 DEF SentInv
  <2>5. LateInv'
    BY <1>7 DEF CountInv, LateInv, Finish, callerVars
  <2> QED BY <2>3, <2>4, <2>5 DEF CountInv
<1>8. CASE Sender
  <2>1. PICK o \in Outcomes : Send(o)
    BY <1>8 DEF Sender
  <2>2. Total(sending') = Total(sending) - 1 /\ Total(results') = Total(results) + 1
    BY <2>1, <1>0, DropFacts, PutFacts DEF Send
  <2>3. \A x \in Outcomes : sending'[x] + results'[x] = sending[x] + results[x]
    <3>1. /\ sending'[o] = sending[o] - 1 /\ results'[o] = results[o] + 1
          /\ \A x \in Outcomes : x # o => sending'[x] = sending[x] /\ results'[x] = results[x]
      BY <2>1, <1>0, DropFacts, PutFacts DEF Send
    <3> QED BY <3>1, <1>b
  <2>4. o # "saturated" /\ sending'["saturated"] = sending["saturated"]
    BY <2>1, <1>0, <1>c, DropFacts DEF Send, CountInv, SentInv
  <2>5. \A x \in Outcomes : sending'[x] \in Nat /\ results'[x] \in Nat
    BY <2>1, <1>0, DropFacts, PutFacts DEF Send, Tally
  <2>6. \A x \in Outcomes : Seen(x)' = Seen(x)
    BY <2>1, <2>3, <2>5, <1>b DEF Seen, Send
  <2>7. TickInv'
    BY <2>1, <2>2, <1>a, <1>d DEF CountInv, TickInv, Send, callerVars
  <2>8. SentInv'
    BY <2>1, <2>4, <2>6, <1>c DEF CountInv, SentInv, Send, callerVars, envVars
  <2>9. LateInv'
    BY <2>1 DEF CountInv, LateInv, Send, callerVars
  <2> QED BY <2>7, <2>8, <2>9 DEF CountInv
<1>9. CASE WorkerExit
  BY <1>9 DEF CountInv, TickInv, SentInv, LateInv, Seen, WorkerExit, callerVars, envVars
<1>10. CASE \E o \in Outcomes : Collect(o)
  <2>1. PICK o \in Outcomes : Collect(o)
    BY <1>10
  <2>2. Total(results') = Total(results) - 1 /\ Total(samples') = Total(samples) + 1
    BY <2>1, <1>0, DropFacts, PutFacts DEF Collect
  <2>3. \A x \in Outcomes : results'[x] + samples'[x] = results[x] + samples[x]
    <3>1. /\ results'[o] = results[o] - 1 /\ samples'[o] = samples[o] + 1
          /\ \A x \in Outcomes : x # o => results'[x] = results[x] /\ samples'[x] = samples[x]
      BY <2>1, <1>0, DropFacts, PutFacts DEF Collect
    <3> QED BY <3>1, <1>b
  <2>4. \A x \in Outcomes : results'[x] \in Nat /\ samples'[x] \in Nat
    BY <2>1, <1>0, DropFacts, PutFacts DEF Collect, Tally
  <2>5. \A x \in Outcomes : Seen(x)' = Seen(x)
    BY <2>1, <2>3, <2>4, <1>b DEF Seen, Collect, workerVars
  <2>6. TickInv'
    BY <2>1, <2>2, <1>a, <1>d DEF CountInv, TickInv, Collect, callerVars, workerVars
  <2>7. SentInv'
    BY <2>1, <2>5, <1>c DEF CountInv, SentInv, Collect, callerVars, envVars, workerVars
  <2>8. LateInv'
    BY <2>1 DEF CountInv, LateInv, Collect, callerVars, workerVars
  <2> QED BY <2>6, <2>7, <2>8 DEF CountInv
<1>11. CASE CollectorDone
  BY <1>11 DEF CountInv, TickInv, SentInv, LateInv, Seen, CollectorDone, callerVars, workerVars, envVars
<1>12. CASE Terminated \/ UNCHANGED vars
  BY <1>12 DEF CountInv, TickInv, SentInv, LateInv, Seen, Terminated, vars, callerVars, workerVars, envVars
<1> QED
  BY <1>1, <1>2, <1>3, <1>4, <1>5, <1>6, <1>7, <1>8, <1>9, <1>10, <1>11, <1>12
     DEF Next, Caller, Collector

LEMMA CountAlways == Spec => [](TypeOK /\ ShutInv /\ CountInv)
<1>1. Init => TypeOK /\ CountInv
  BY InitTypeOK, InitCount
<1>2. (TypeOK /\ CountInv) /\ [Next]_vars => (TypeOK /\ CountInv)'
  BY StepTypeOK, StepCount
<1> QED BY <1>1, <1>2, ShutAlways, PTL DEF Spec

\* Once the collector is done nothing is under way: every tick is in the slice.
LEMMA AllCollected ==
  ASSUME TypeOK, ShutInv, CountInv, collectorDone
  PROVE  /\ inflight = 0 /\ Total(samples) = ticks
         /\ \A o \in Outcomes : Seen(o) = samples[o]
<1>0. sending \in Tally /\ results \in Tally /\ samples \in Tally
  BY DEF TypeOK, Tally
<1>1. Total(sending) \in Nat /\ Total(results) = 0 /\ Total(samples) \in Nat
  BY <1>0, TallyFacts DEF ShutInv
<1>2. exited = Concurrency /\ jobs = 0 /\ pc # "saturated"
  BY GeneratorAssumption DEF ShutInv, Open
<1>3. inflight = 0 /\ Total(sending) = 0
  BY <1>1, <1>2, GeneratorAssumption DEF TypeOK
<1>4. \A o \in Outcomes : Seen(o) = samples[o]
  <2> SUFFICES ASSUME NEW o \in Outcomes PROVE Seen(o) = samples[o]
    OBVIOUS
  <2>1. sending[o] <= 0 /\ results[o] <= 0
    BY <1>0, <1>1, <1>3, TallyFacts
  <2>2. sending[o] \in Nat /\ results[o] \in Nat /\ samples[o] \in Nat
    BY <1>0 DEF Tally
  <2> QED BY <2>1, <2>2 DEF Seen
<1> QED BY <1>1, <1>2, <1>3, <1>4 DEF CountInv, TickInv, TypeOK

\* What Run returns adds up: each tick is a request or counted as saturated, and the
\* requests are those that were sent and those that never were, which there are only
\* after a signal or with a target that no request can be made of.
THEOREM GeneratorCountsAddUp == Spec => []CountsAddUp
<1>1. TypeOK /\ ShutInv /\ CountInv => CountsAddUp
  <2> SUFFICES ASSUME TypeOK, ShutInv, CountInv, pc = "returned"
               PROVE  /\ Requests + saturated = ticks
                      /\ Requests = sent + samples["unsent"]
                      /\ samples["unsent"] > 0 => signalled \/ ~sendable
    BY DEF CountsAddUp
  <2>1. inflight = 0 /\ Total(samples) = ticks /\ \A o \in Outcomes : Seen(o) = samples[o]
    BY AllCollected DEF ShutInv
  <2>2. /\ samples["ok"] \in Nat /\ samples["fail"] \in Nat /\ samples["aborted"] \in Nat
        /\ samples["unsent"] \in Nat /\ ticks \in Nat /\ saturated \in Nat
    BY TallyFacts DEF TypeOK, Tally
  <2>3. /\ sent = samples["ok"] + samples["fail"] + samples["aborted"]
        /\ samples["saturated"] = saturated
        /\ ~signalled /\ sendable => samples["unsent"] = 0
    BY <2>1, <2>2 DEF Outcomes, Answer, CountInv, SentInv
  <2>4. Total(samples) = samples["ok"] + samples["fail"] + samples["aborted"] + samples["unsent"] + saturated
    BY <2>3 DEF Total
  <2>5. Requests + saturated = ticks /\ Requests = sent + samples["unsent"]
    BY <2>1, <2>2, <2>3, <2>4 DEF Requests
  <2> QED BY <2>2, <2>3, <2>5
<1> QED BY <1>1, CountAlways, PTL

\* The end of the duration aborts no request.
THEOREM GeneratorDeadlineAbortsNothing == Spec => []DeadlineAbortsNothing
<1>1. CountInv => DeadlineAbortsNothing
  BY DEF CountInv, SentInv, DeadlineAbortsNothing
<1> QED BY <1>1, CountAlways, PTL

\* No more requests begin after the dispatch loop than its queue holds.
THEOREM GeneratorFewLateStarts == Spec => []FewLateStarts
<1>1. TypeOK /\ CountInv => FewLateStarts
  BY GeneratorAssumption DEF TypeOK, CountInv, LateInv, FewLateStarts
<1> QED BY <1>1, CountAlways, PTL

-----------------------------------------------------------------------------
(* Generator implements LoadCount. *)

Reported == IF pc = "returned" THEN saturated ELSE 0

\* A step that takes no tick, collects no sample and does not end a phase.
LEMMA Stutters ==
  UNCHANGED <<sendable, signalled, ticks, samples, Phase, Reported>> => UNCHANGED Promise!countVars
BY DEF Promise!countVars, Reported

LEMMA InitPromises == Init => Promise!CountInit
<1> SUFFICES ASSUME Init PROVE Promise!CountInit
  OBVIOUS
<1>1. /\ sendable \in BOOLEAN /\ signalled = FALSE /\ ticks = 0
      /\ pc = "select" /\ samples = None
  BY DEF Init
<1>2. Total(samples) = 0
  BY <1>1, NoneFacts
<1> QED BY <1>1, <1>2 DEF Promise!CountInit, Phase, None

LEMMA StepPromises ==
  TypeOK /\ ShutInv /\ CountInv /\ [Next]_vars => [Promise!CountNext]_(Promise!countVars)
<1> SUFFICES ASSUME TypeOK, ShutInv, CountInv, [Next]_vars
             PROVE  Promise!CountNext \/ UNCHANGED Promise!countVars
  OBVIOUS
<1>0. /\ sending \in Tally /\ results \in Tally /\ samples \in Tally
      /\ Total(sending) \in Nat /\ Total(results) \in Nat /\ Total(samples) \in Nat
      /\ ticks \in Nat /\ jobs \in Nat /\ inflight \in Nat
  BY TallyFacts DEF TypeOK, Tally
<1>1. CASE Signal
  BY <1>1 DEF Signal, callerVars, Phase, Promise!CountNext, Promise!Interrupt
<1>2. CASE Expire \/ TickerFire
  BY <1>2, Stutters DEF Expire, TickerFire, callerVars, Phase, Reported
<1>3. CASE Dispatch \/ Saturate
  <2>1. ticks' = ticks + 1 /\ pc = "select" /\ pc' \in {"select", "saturated"}
    BY <1>3 DEF Dispatch, Saturate, TakeTick
  <2>2. UNCHANGED <<sendable, signalled, samples>>
    BY <1>3 DEF Dispatch, Saturate, envVars
  <2>3. ticks' - Total(samples') = ticks - Total(samples) + 1
    BY <2>1, <2>2, <1>0
  <2> QED BY <2>1, <2>2, <2>3 DEF Phase, Promise!CountNext, Promise!Take
<1>4. CASE RecordSaturated \/ WorkersDone
  BY <1>4, Stutters DEF RecordSaturated, WorkersDone, envVars, Phase, Reported
<1>5. CASE Stop
  BY <1>5 DEF Stop, envVars, Phase, Promise!CountNext, Promise!StopTaking
<1>6. CASE Return
  <2>1. ticks - Total(samples) = 0 /\ saturated = samples["saturated"]
    <3>1. Total(samples) = ticks /\ Seen("saturated") = samples["saturated"]
      BY <1>6, AllCollected DEF Return, Outcomes
    <3> QED BY <3>1, <1>0 DEF CountInv, SentInv
  <2>2. pc = "draining" /\ pc' = "returned" /\ UNCHANGED <<sendable, signalled, ticks, samples, saturated>>
    BY <1>6 DEF Return, envVars
  <2> QED BY <2>1, <2>2 DEF Phase, Promise!CountNext, Promise!HandOver
<1>7. CASE Receive \/ Finish \/ WorkerExit \/ CollectorDone
  BY <1>7, Stutters DEF Receive, Finish, WorkerExit, CollectorDone, envVars, callerVars, Phase, Reported
<1>8. CASE Sender
  BY <1>8, Stutters DEF Sender, Send, envVars, callerVars, Phase, Reported
<1>9. ASSUME NEW o \in Outcomes, Collect(o) PROVE Promise!CountNext
  <2>1. /\ results[o] > 0 /\ ~collectorDone /\ samples' = Put(samples, o)
        /\ UNCHANGED <<sendable, signalled, ticks, pc, saturated>>
    BY <1>9 DEF Collect, envVars, callerVars
  <2>2. pc # "returned"
    BY <2>1 DEF ShutInv
  <2>3. Total(samples') = Total(samples) + 1
    BY <2>1, <1>0, PutFacts
  <2>4. results[o] <= Total(results) /\ results[o] \in Nat
    BY <1>0, TallyFacts DEF Tally
  <2>5. ticks - Total(samples) > 0
    BY <2>1, <2>4, <1>0 DEF CountInv, TickInv
  <2>6. (o = "aborted" => signalled) /\ (o = "unsent" => signalled \/ ~sendable)
    <3>1. \A x \in Outcomes : sending[x] \in Nat /\ results[x] \in Nat /\ samples[x] \in Nat
      BY <1>0 DEF Tally
    <3> QED BY <2>1, <3>1 DEF CountInv, SentInv, Seen
  <2>7. Promise!Record(o)
    <3>1. ticks' - Total(samples') = ticks - Total(samples) - 1
      BY <2>1, <2>3, <1>0
    <3> QED BY <2>1, <2>2, <2>5, <2>6, <3>1 DEF Promise!Record, Put, Phase, TypeOK
  <2> QED BY <2>7 DEF Promise!CountNext
<1>10. CASE Terminated \/ UNCHANGED vars
  BY <1>10, Stutters DEF Terminated, vars, envVars, callerVars, Phase, Reported
<1> QED
  BY <1>1, <1>2, <1>3, <1>4, <1>5, <1>6, <1>7, <1>8, <1>9, <1>10 DEF Next, Caller, Collector

\* The pipeline of loadgen, for any pool, turns each tick into one sample, takes none after
\* the loop, aborts only on a signal, and returns a slice that is complete and final.
THEOREM GeneratorKeepsPromise == Spec => ImplementsLoadCount
<1> QED BY CountAlways, InitPromises, StepPromises, PTL DEF Spec, ImplementsLoadCount, Promise!CountSpec
=============================================================================
