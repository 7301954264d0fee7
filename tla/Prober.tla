------------------------------- MODULE Prober --------------------------------
(***************************************************************************)
(* probe.Run (internal/probe/probe.go): the caller's tick loop, the pool   *)
(* of Concurrency workers, the collector, and the channels between them.   *)
(*                                                                         *)
(* A tick is the number of the ticker's firing that produced it; it stands *)
(* for the sample's At.  A latency is not modelled.  Every step below is   *)
(* one channel operation (or the close of a channel) of one goroutine; a   *)
(* goroutine's private computation between two of them is part of the      *)
(* first.                                                                  *)
(***************************************************************************)
EXTENDS Naturals, Sequences, FiniteSets

CONSTANTS Workers,      \* the worker goroutines
          Concurrency,  \* how many there are: also the capacity of both channels
          MaxTicks      \* bound: how often the ticker fires in a behaviour

ASSUME PoolAssumption == /\ IsFiniteSet(Workers)
                         /\ Cardinality(Workers) = Concurrency
                         /\ Concurrency \in Nat \ {0}
ASSUME BoundAssumption == MaxTicks \in Nat

VARIABLES
  cancelled,      \* ctx.Done() is closed
  clock,          \* firings of the ticker so far
  tickC,          \* ticker.C, a channel of capacity 1: the waiting tick, 0 if none
  pc,             \* where the goroutine that called Run is
  now,            \* the tick that goroutine offers to results ("saturated" only)
  jobs,           \* the buffered channel of ticks to probe
  jobsClosed,
  worker,         \* per worker: its state and the sample it is working on
  results,        \* the buffered channel of samples
  resultsClosed,
  collectorDone,  \* the channel `collected` is closed
  samples,        \* the slice Run returns
  taken           \* history: every tick received from ticker.C

callerVars  == <<pc, now, taken>>
channelVars == <<jobs, jobsClosed, results, resultsClosed>>
collectVars == <<collectorDone, samples>>
envVars     == <<cancelled, clock>>
vars == <<envVars, tickC, callerVars, channelVars, worker, collectVars>>

Tick     == 0 .. MaxTicks
Answer   == {"ok", "fail"}     \* status 200; any other status, or an error of the client
Outcomes == Answer \union {"aborted", "saturated"}
Sample   == [at : Tick, outcome : Outcomes]

Idle == [st |-> "idle"]
Done == [st |-> "done"]
WorkerState == {Idle, Done}
                 \union [st : {"inflight"}, at : Tick]
                 \union [st : {"sending"}, at : Tick, outcome : Outcomes]

Init == /\ cancelled = FALSE
        /\ clock = 0 /\ tickC = 0
        /\ pc = "select" /\ now = 0 /\ taken = {}
        /\ jobs = <<>> /\ jobsClosed = FALSE
        /\ results = <<>> /\ resultsClosed = FALSE
        /\ worker = [w \in Workers |-> Idle]
        /\ collectorDone = FALSE /\ samples = <<>>

-----------------------------------------------------------------------------
(* The environment: the caller's context and the runtime's ticker. *)

Cancel == /\ ~cancelled
          /\ cancelled' = TRUE
          /\ UNCHANGED <<clock, tickC, callerVars, channelVars, worker, collectVars>>

\* A tick that finds the ticker's channel full is dropped by the runtime.
TickerFire == /\ clock < MaxTicks
              /\ pc # "returned"
              /\ clock' = clock + 1
              /\ tickC' = IF tickC = 0 THEN clock + 1 ELSE tickC
              /\ UNCHANGED <<cancelled, callerVars, channelVars, worker, collectVars>>

-----------------------------------------------------------------------------
(* The goroutine that called Run. *)

TakeTick == /\ pc = "select"
            /\ tickC # 0
            /\ taken' = taken \union {tickC}
            /\ tickC' = 0

\* The inner select's first case: a buffered send that would not block.
Dispatch == /\ TakeTick
            /\ Len(jobs) < Concurrency
            /\ jobs' = Append(jobs, tickC)
            /\ UNCHANGED <<envVars, pc, now, jobsClosed, results, resultsClosed, worker, collectVars>>

\* Mutated: the default case is empty.
Saturate_Forgets ==
  /\ TakeTick
  /\ Len(jobs) >= Concurrency
  /\ UNCHANGED <<envVars, pc, now, channelVars, worker, collectVars>>

\* Its default: the pool is saturated, and the tick itself becomes a sample.
Saturate == /\ TakeTick
            /\ Len(jobs) >= Concurrency
            /\ pc' = "saturated"
            /\ now' = tickC
            /\ UNCHANGED <<envVars, channelVars, worker, collectVars>>

RecordSaturated == /\ pc = "saturated"
                   /\ Len(results) < Concurrency
                   /\ results' = Append(results, [at |-> now, outcome |-> "saturated"])
                   /\ pc' = "select"
                   /\ now' = 0
                   /\ UNCHANGED <<envVars, tickC, taken, jobs, jobsClosed, resultsClosed, worker, collectVars>>

\* Mutated: close(jobs) is missing.
Stop_NoClose ==
  /\ pc = "select"
  /\ cancelled
  /\ pc' = "waiting"
  /\ UNCHANGED <<envVars, tickC, now, taken, channelVars, worker, collectVars>>

\* ctx.Done() wins the outer select: leave the loop and close(jobs).
Stop == /\ pc = "select"
        /\ cancelled
        /\ jobsClosed' = TRUE
        /\ pc' = "waiting"
        /\ UNCHANGED <<envVars, tickC, now, taken, jobs, results, resultsClosed, worker, collectVars>>

\* Mutated: workers.Wait() is missing.
WorkersDone_NoWait ==
  /\ pc = "waiting"
  /\ resultsClosed' = TRUE
  /\ pc' = "draining"
  /\ UNCHANGED <<envVars, tickC, now, taken, jobs, jobsClosed, results, worker, collectVars>>

\* workers.Wait() returns, and close(results).
WorkersDone == /\ pc = "waiting"
               /\ \A w \in Workers : worker[w] = Done
               /\ resultsClosed' = TRUE
               /\ pc' = "draining"
               /\ UNCHANGED <<envVars, tickC, now, taken, jobs, jobsClosed, results, worker, collectVars>>

\* Mutated: <-collected is missing.
Return_NoWait ==
  /\ pc = "draining"
  /\ pc' = "returned"
  /\ UNCHANGED <<envVars, tickC, now, taken, channelVars, worker, collectVars>>

\* <-collected, and return samples.
Return == /\ pc = "draining"
          /\ collectorDone
          /\ pc' = "returned"
          /\ UNCHANGED <<envVars, tickC, now, taken, channelVars, worker, collectVars>>

-----------------------------------------------------------------------------
(* The workers. *)

\* A request whose context is already cancelled fails before it is sent.
Receive(w) == /\ worker[w] = Idle
              /\ jobs # <<>>
              /\ jobs' = Tail(jobs)
              /\ worker' = [worker EXCEPT ![w] =
                   IF cancelled THEN [st |-> "sending", at |-> Head(jobs), outcome |-> "aborted"]
                                ELSE [st |-> "inflight", at |-> Head(jobs)]]
              /\ UNCHANGED <<envVars, tickC, callerVars, jobsClosed, results, resultsClosed, collectVars>>

\* Mutated: a request that fails because ctx ended leaves no sample.
Finish_SkipsAborted(w) ==
  /\ worker[w].st = "inflight"
  /\ \/ \E o \in Answer :
          worker' = [worker EXCEPT ![w] = [st |-> "sending", at |-> worker[w].at, outcome |-> o]]
     \/ cancelled /\ worker' = [worker EXCEPT ![w] = Idle]
  /\ UNCHANGED <<envVars, tickC, callerVars, channelVars, collectVars>>

\* p.do returns: the server answered, the client timed out, or ctx was cancelled.
Finish(w) == /\ worker[w].st = "inflight"
             /\ \E o \in Answer \union (IF cancelled THEN {"aborted"} ELSE {}) :
                  worker' = [worker EXCEPT ![w] =
                               [st |-> "sending", at |-> worker[w].at, outcome |-> o]]
             /\ UNCHANGED <<envVars, tickC, callerVars, channelVars, collectVars>>

Send(w) == /\ worker[w].st = "sending"
           /\ Len(results) < Concurrency
           /\ results' = Append(results, [at |-> worker[w].at, outcome |-> worker[w].outcome])
           /\ worker' = [worker EXCEPT ![w] = Idle]
           /\ UNCHANGED <<envVars, tickC, callerVars, jobs, jobsClosed, resultsClosed, collectVars>>

\* range over jobs ends once the channel is closed and empty.
Exit(w) == /\ worker[w] = Idle
           /\ jobsClosed
           /\ jobs = <<>>
           /\ worker' = [worker EXCEPT ![w] = Done]
           /\ UNCHANGED <<envVars, tickC, callerVars, channelVars, collectVars>>

-----------------------------------------------------------------------------
(* The collector. *)

\* Mutated: the results are collected only after the workers are done.
Collect_AtEnd ==
  /\ resultsClosed
  /\ ~collectorDone
  /\ results # <<>>
  /\ samples' = Append(samples, Head(results))
  /\ results' = Tail(results)
  /\ UNCHANGED <<envVars, tickC, callerVars, jobs, jobsClosed, resultsClosed, worker, collectorDone>>

Collect == /\ ~collectorDone
           /\ results # <<>>
           /\ samples' = Append(samples, Head(results))
           /\ results' = Tail(results)
           /\ UNCHANGED <<envVars, tickC, callerVars, jobs, jobsClosed, resultsClosed, worker, collectorDone>>

CollectorDone == /\ ~collectorDone
                 /\ resultsClosed
                 /\ results = <<>>
                 /\ collectorDone' = TRUE
                 /\ UNCHANGED <<envVars, tickC, callerVars, channelVars, worker, samples>>

-----------------------------------------------------------------------------
Caller     == Dispatch \/ Saturate \/ RecordSaturated \/ Stop \/ WorkersDone \/ Return
Worker(w)  == Receive(w) \/ Finish(w) \/ Send(w) \/ Exit(w)
Collector  == Collect \/ CollectorDone

\* Run has returned and its goroutines are gone: the only state with nothing to do.
Terminated == pc = "returned" /\ UNCHANGED vars

Next == \/ Cancel \/ TickerFire
        \/ Caller \/ (\E w \in Workers : Worker(w)) \/ Collector
        \/ Terminated

Spec == Init /\ [][Next]_vars

(* The Go scheduler runs every goroutine that can run.  The outer select    *)
(* chooses at random among its ready cases, so a cancelled context cannot   *)
(* lose to the ticker for ever: strong fairness of Stop.  A request ends    *)
(* because http.Client.Timeout or the context ends it.  Nobody owes the     *)
(* run a Cancel, nor a tick.                                                *)
Fairness == /\ WF_vars(Caller)
            /\ SF_vars(Stop)
            /\ \A w \in Workers : WF_vars(Worker(w))
            /\ WF_vars(Collector)

FairSpec == Spec /\ Fairness

-----------------------------------------------------------------------------
(* Properties. *)

\* Every variable stays in its range, and neither channel exceeds its buffer.
TypeOK == /\ cancelled \in BOOLEAN
          /\ clock \in Tick /\ tickC \in Tick
          /\ pc \in {"select", "saturated", "waiting", "draining", "returned"}
          /\ now \in Tick /\ taken \in SUBSET Tick
          /\ jobs \in Seq(Tick) /\ Len(jobs) <= Concurrency
          /\ results \in Seq(Sample) /\ Len(results) <= Concurrency
          /\ jobsClosed \in BOOLEAN /\ resultsClosed \in BOOLEAN
          /\ worker \in [Workers -> WorkerState]
          /\ collectorDone \in BOOLEAN
          /\ samples \in Seq(Sample)

\* The places a tick received from the ticker can be in.
Busy(w)  == worker[w].st \in {"inflight", "sending"}
Offered  == IF pc = "saturated" THEN {now} ELSE {}
Queued   == {jobs[i] : i \in DOMAIN jobs}
Probing  == {worker[w].at : w \in {x \in Workers : Busy(x)}}
Emitted  == {results[i].at : i \in DOMAIN results}
Recorded == {samples[i].at : i \in DOMAIN samples}

\* No tick is in two places, or twice in one.
NoDuplicate ==
  /\ \A i, j \in DOMAIN jobs : jobs[i] = jobs[j] => i = j
  /\ \A v, w \in Workers : Busy(v) /\ Busy(w) /\ worker[v].at = worker[w].at => v = w
  /\ \A i, j \in DOMAIN results : results[i].at = results[j].at => i = j
  /\ \A i, j \in DOMAIN samples : samples[i].at = samples[j].at => i = j
  /\ Offered \intersect (Queued \union Probing \union Emitted \union Recorded) = {}
  /\ Queued \intersect (Probing \union Emitted \union Recorded) = {}
  /\ Probing \intersect (Emitted \union Recorded) = {}
  /\ Emitted \intersect Recorded = {}

\* At every instant each tick received from the ticker is in exactly one place
\* of the pipeline, and no other tick is anywhere: two channels, a pool and a
\* collector neither lose a tick nor record it twice.
EveryTickAccountedFor ==
  /\ taken = Offered \union Queued \union Probing \union Emitted \union Recorded
  /\ NoDuplicate

\* No goroutine that may still send finds its channel closed (the send would
\* panic): the caller and the workers are done with results before close(results),
\* and the caller is out of its loop before close(jobs).
NoSendAfterClose ==
  /\ resultsClosed => /\ pc # "saturated"
                      /\ \A w \in Workers : worker[w].st \notin {"inflight", "sending"}
                      /\ jobs = <<>>
  /\ jobsClosed => pc \notin {"select", "saturated"}

\* Once Run has returned, no goroutine appends to the slice the caller holds.
ReturnedSamplesAreFinal == [][pc = "returned" => UNCHANGED samples]_vars

\* The phase of the run its caller could name.
Phase == IF pc \in {"select", "saturated"} THEN "running"
         ELSE IF pc = "returned" THEN "returned" ELSE "draining"

\* Run implements the promise of LoadRun: one sample per tick, recorded after
\* the tick was taken and never twice, and a return only with the last of them.
Promise == INSTANCE LoadRun WITH Ticks <- Tick, phase <- Phase
ImplementsLoadRun == Promise!RunSpec

\* A cancelled run returns: neither a full results channel nor an unfinished
\* request nor a ticker that always has a tick ready holds it for ever.
CancelledRunReturns == cancelled ~> (pc = "returned")

\* Every tick taken ends up as a sample, even if nobody ever cancels.
EveryTickIsRecorded ==
  \A t \in Tick : (t \in taken) ~> (\E i \in DOMAIN samples : samples[i].at = t)
=============================================================================
